---- MODULE Spec2Model ----
(***************************************************************************)
(* Model of the athletics data warehouse pipeline (python/02_transform.py, *)
(* python/02b_load_reconciled.py, python/04_load_facts.py): result         *)
(* parsing, name normalisation, event classification, the reconciliation   *)
(* stages and the fact loading with its measures.                          *)
(*                                                                         *)
(* Text is modelled by TLA+ strings, read one character at a time with     *)
(* SubSeq; decimal numbers by exact decimals [m, e] standing for m / 10^e. *)
(***************************************************************************)
EXTENDS Integers, Sequences, FiniteSets, TLC

VARIABLES
    pc,                 \* position of the run
    arg,                \* argument handed to the function under study
    ret,                \* what the function returned
    raw_wa,             \* staging.raw_world_athletics
    raw_cities,         \* staging.raw_cities
    raw_temperature,    \* staging.raw_temperature
    clean_wa,           \* staging.clean_world_athletics
    clean_cities,       \* staging.clean_cities
    clean_temperature,  \* staging.clean_temperature
    athletes,           \* reconciled.athletes
    events,             \* reconciled.events
    venues,             \* reconciled.venues
    weather_conditions, \* reconciled.weather_conditions
    performances,       \* reconciled.performances
    dim_athlete,        \* dwh.dim_athlete
    dim_event,          \* dwh.dim_event
    dim_venue,          \* dwh.dim_venue
    dim_weather,        \* dwh.dim_weather
    dim_date,           \* dwh.dim_date
    fact_performance    \* dwh.fact_performance

fnVars == <<arg, ret>>

stagingVars == <<raw_wa, raw_cities, raw_temperature>>

cleanVars == <<clean_wa, clean_cities, clean_temperature>>

reconciledVars == <<athletes, events, venues, weather_conditions, performances>>

dwhVars == <<dim_athlete, dim_event, dim_venue, dim_weather, dim_date, fact_performance>>

dbVars == <<stagingVars, cleanVars, reconciledVars, dwhVars>>

vars == <<pc, fnVars, dbVars>>

(***************************************************************************)
(* Python str primitives                                                   *)
(***************************************************************************)
\* SQL NULL / pandas NA in a text column
NULL == "<NULL>"

Ch(s, i) == SubSeq(s, i, i)

Digits == "0123456789"

LowerLetters == "abcdefghijklmnopqrstuvwxyz"

UpperLetters == "ABCDEFGHIJKLMNOPQRSTUVWXYZ"

IndexIn(alphabet, c) ==
    IF \E i \in 1..Len(alphabet) : Ch(alphabet, i) = c
    THEN CHOOSE i \in 1..Len(alphabet) : Ch(alphabet, i) = c
    ELSE 0

IsDigit(c) == IndexIn(Digits, c) > 0

IsUpper(c) == IndexIn(UpperLetters, c) > 0

IsLower(c) == IndexIn(LowerLetters, c) > 0

IsLetter(c) == IsUpper(c) \/ IsLower(c)

IsSpace(c) == c = " "

UpperCh(c) == IF IsLower(c) THEN Ch(UpperLetters, IndexIn(LowerLetters, c)) ELSE c

LowerCh(c) == IF IsUpper(c) THEN Ch(LowerLetters, IndexIn(UpperLetters, c)) ELSE c

RECURSIVE Upper(_)
\* str.upper()
Upper(s) == IF Len(s) = 0 THEN "" ELSE UpperCh(Head(s)) \o Upper(Tail(s))

RECURSIVE Lower(_)
\* str.lower()
Lower(s) == IF Len(s) = 0 THEN "" ELSE LowerCh(Head(s)) \o Lower(Tail(s))

RECURSIVE LStrip(_)
LStrip(s) == IF Len(s) > 0 /\ IsSpace(Head(s)) THEN LStrip(Tail(s)) ELSE s

RECURSIVE RStrip(_)
RStrip(s) ==
    IF Len(s) > 0 /\ IsSpace(Ch(s, Len(s))) THEN RStrip(SubSeq(s, 1, Len(s) - 1)) ELSE s

\* str.strip()
Strip(s) == RStrip(LStrip(s))

\* s.startswith(p) at offset i (1-based)
MatchAt(s, i, p) == i >= 1 /\ i + Len(p) - 1 <= Len(s) /\ SubSeq(s, i, i + Len(p) - 1) = p

\* p in s
Contains(s, p) == \E i \in 1..(Len(s) + 1) : MatchAt(s, i, p)

\* s.endswith(p)
EndsWith(s, p) == Len(p) <= Len(s) /\ SubSeq(s, Len(s) - Len(p) + 1, Len(s)) = p

RECURSIVE RemoveCh(_, _)
\* s.replace(c, '') for a single character c
RemoveCh(s, c) ==
    IF Len(s) = 0 THEN ""
    ELSE IF Head(s) = c THEN RemoveCh(Tail(s), c)
    ELSE Head(s) \o RemoveCh(Tail(s), c)

RECURSIVE SplitOn(_, _)
\* s.split(c) for a single character c: the list of (possibly empty) fields
SplitOn(s, c) ==
    IF \E i \in 1..Len(s) : Ch(s, i) = c
    THEN LET k == CHOOSE i \in 1..Len(s) :
                      Ch(s, i) = c /\ \A j \in 1..(i - 1) : Ch(s, j) # c
         IN  <<SubSeq(s, 1, k - 1)>> \o SplitOn(SubSeq(s, k + 1, Len(s)), c)
    ELSE <<s>>

RECURSIVE Words(_)
\* s.split(): the whitespace separated words, none of them empty
Words(s) ==
    LET t == LStrip(s)
    IN  IF Len(t) = 0 THEN <<>>
        ELSE IF \E i \in 1..Len(t) : IsSpace(Ch(t, i))
        THEN LET k == CHOOSE i \in 1..Len(t) :
                          IsSpace(Ch(t, i)) /\ \A j \in 1..(i - 1) : ~IsSpace(Ch(t, j))
             IN  <<SubSeq(t, 1, k - 1)>> \o Words(SubSeq(t, k + 1, Len(t)))
        ELSE <<t>>

RECURSIVE JoinSp(_)
\* ' '.join(ws)
JoinSp(ws) ==
    IF Len(ws) = 0 THEN ""
    ELSE IF Len(ws) = 1 THEN ws[1]
    ELSE ws[1] \o " " \o JoinSp(Tail(ws))

RECURSIVE StrSeqs(_, _)
\* every string of at most n characters over a set of characters
StrSeqs(chars, n) ==
    IF n = 0 THEN {""}
    ELSE LET shorter == StrSeqs(chars, n - 1)
         IN  shorter \cup {s \o c : s \in shorter, c \in chars}

(***************************************************************************)
(* Exact decimals: [m |-> mantissa, e |-> number of fraction digits]       *)
(***************************************************************************)
\* Python None / pandas NA in a numeric column
None == [kind |-> "None"]

NaN == [kind |-> "nan"]

PosInf == [kind |-> "inf"]

NegInf == [kind |-> "-inf"]

\* float() raised ValueError
ValueError == [kind |-> "ValueError"]

\* no value yet
Unset == [kind |-> "unset"]

IsNum(v) == v.kind = "num"

RECURSIVE Pow10(_)
Pow10(n) == IF n = 0 THEN 1 ELSE 10 * Pow10(n - 1)

RECURSIVE Norm(_)
\* the same number without trailing fraction zeros
Norm(v) ==
    IF v.e > 0 /\ v.m % 10 = 0 THEN Norm([kind |-> "num", m |-> v.m \div 10, e |-> v.e - 1])
    ELSE v

Dec(m, e) == Norm([kind |-> "num", m |-> m, e |-> e])

Whole(n) == Dec(n, 0)

\* v * k for an integer k > 0
Scale(v, k) ==
    IF IsNum(v) THEN Dec(v.m * k, v.e) ELSE v

\* a + b, IEEE rules for nan and the infinities
Plus(a, b) ==
    IF a = NaN \/ b = NaN THEN NaN
    ELSE IF a = PosInf THEN (IF b = NegInf THEN NaN ELSE PosInf)
    ELSE IF a = NegInf THEN (IF b = PosInf THEN NaN ELSE NegInf)
    ELSE IF b \in {PosInf, NegInf} THEN b
    ELSE LET e == IF a.e > b.e THEN a.e ELSE b.e
         IN  Dec(a.m * Pow10(e - a.e) + b.m * Pow10(e - b.e), e)

\* a <= b for numbers a, b (every comparison with nan is false)
Leq(a, b) ==
    IF a = NaN \/ b = NaN THEN FALSE
    ELSE IF a = NegInf \/ b = PosInf THEN TRUE
    ELSE IF a = PosInf \/ b = NegInf THEN FALSE
    ELSE LET e == IF a.e > b.e THEN a.e ELSE b.e
         IN  a.m * Pow10(e - a.e) <= b.m * Pow10(e - b.e)

RECURSIVE DigitsValue(_)
\* int() of a string of decimal digits
DigitsValue(s) ==
    IF Len(s) = 0 THEN 0
    ELSE 10 * DigitsValue(SubSeq(s, 1, Len(s) - 1)) + (IndexIn(Digits, Ch(s, Len(s))) - 1)

AllDigits(s) == \A i \in 1..Len(s) : IsDigit(Ch(s, i))

\* float(s): surrounding blanks ignored, optional sign, digits with at most one
\* point, or nan / inf / infinity in any case. Anything else is a ValueError.
\* (Exponents and digit-group underscores are outside the modelled alphabet.)
Float(s) ==
    LET t    == Strip(s)
        neg  == Len(t) > 0 /\ Head(t) = "-"
        sgn  == Len(t) > 0 /\ Head(t) \in {"-", "+"}
        u    == IF sgn THEN Tail(t) ELSE t
        lu   == Lower(u)
        flds == SplitOn(u, ".")
        ip   == flds[1]
        fp   == IF Len(flds) = 2 THEN flds[2] ELSE ""
    IN  IF lu = "nan" THEN NaN
        ELSE IF lu \in {"inf", "infinity"} THEN (IF neg THEN NegInf ELSE PosInf)
        ELSE IF Len(flds) > 2 \/ ~AllDigits(ip) \/ ~AllDigits(fp) \/ Len(ip) + Len(fp) = 0
        THEN ValueError
        ELSE LET mag == DigitsValue(ip \o fp)
             IN  Dec(IF neg THEN 0 - mag ELSE mag, Len(fp))

(***************************************************************************)
(* 02_transform.py: clean_result_values.parse_time_result                  *)
(***************************************************************************)
NonResults == {"DNF", "DQ", "DNS", "NM", ""}

\* a slip: the minutes weighted like hours
MinSecAsHours(minutes, seconds) == Plus(Scale(minutes, 3600), seconds)

\* minutes * 60 + seconds
MinSec(minutes, seconds) == Plus(Scale(minutes, 60), seconds)

\* hours * 3600 + minutes * 60 + seconds
HourMinSec(hours, minutes, seconds) ==
    Plus(Plus(Scale(hours, 3600), Scale(minutes, 60)), seconds)

\* a slip: a failed parse defaulted to 0
OnParseErrorZero == Whole(0)

\* except (ValueError, AttributeError): return None
OnParseError == None

parse_time_result(result_str) ==
    LET s     == Strip(result_str)
        parts == SplitOn(s, ":")
        f(i)  == Float(parts[i])
    IN  IF s \in NonResults THEN None
        ELSE IF Contains(s, ":")
        THEN IF Len(parts) = 2
             THEN IF f(1) = ValueError \/ f(2) = ValueError THEN OnParseError
                  ELSE MinSec(f(1), f(2))
             ELSE IF Len(parts) = 3
             THEN IF f(1) = ValueError \/ f(2) = ValueError \/ f(3) = ValueError
                  THEN OnParseError
                  ELSE HourMinSec(f(1), f(2), f(3))
             ELSE None
        ELSE IF Float(s) = ValueError THEN OnParseError ELSE Float(s)

(***************************************************************************)
(* Specification SpecParse: parse_time_result applied to one raw result    *)
(***************************************************************************)
MaxLen == 4

MaxMinutes == 3

MaxHours == 2

RawAlphabet == {"0", "1", "5", ".", ":", " ", "N"}

\* results as the source file writes them, and near misses
RawTokens ==
    {"DNF", "DQ", "DNS", "NM", " DNF ", "DNF ", " NM", "dnf", "DNF1", "D NF",
     "nan", "inf", "abc", "1:2:3:4", "-1:30", "3:45.2O", "9,58", "1::5"}

SecondsSample == {0, 5, 45, 59}

CentisSample == {0, 5, 20, 99}

RECURSIVE ToStr(_)
\* the decimal digits of n >= 0
ToStr(n) == IF n < 10 THEN Ch(Digits, n + 1) ELSE ToStr(n \div 10) \o Ch(Digits, (n % 10) + 1)

Pad2(n) == IF n < 10 THEN "0" \o ToStr(n) ELSE ToStr(n)

\* a time written with the given number of colons: SS.ss, MM:SS.ss, HH:MM:SS.ss
TimeText(t) ==
    LET sec == (IF t.colons = 0 THEN ToStr(t.ss) ELSE Pad2(t.ss)) \o "." \o Pad2(t.cs)
    IN  IF t.colons = 0 THEN sec
        ELSE IF t.colons = 1 THEN ToStr(t.mm) \o ":" \o sec
        ELSE ToStr(t.hh) \o ":" \o Pad2(t.mm) \o ":" \o sec

NoTime == [colons |-> -1, hh |-> 0, mm |-> 0, ss |-> 0, cs |-> 0]

Times ==
    {[colons |-> c, hh |-> h, mm |-> m, ss |-> s, cs |-> x] :
        c \in 0..2, h \in 0..MaxHours, m \in 0..MaxMinutes, s \in SecondsSample, x \in CentisSample}

ValidTimes == {t \in Times : (t.colons < 2 => t.hh = 0) /\ (t.colons < 1 => t.mm = 0)}

ParseInputs ==
    {[raw |-> s, time |-> NoTime] : s \in StrSeqs(RawAlphabet, MaxLen) \cup RawTokens}
    \cup {[raw |-> TimeText(t), time |-> t] : t \in ValidTimes}

\* no table holds a row
EmptyDwh ==
    /\ dim_athlete = <<>> /\ dim_event = <<>> /\ dim_venue = <<>>
    /\ dim_weather = <<>> /\ dim_date = <<>> /\ fact_performance = <<>>

EmptyDb ==
    /\ EmptyDwh
    /\ raw_wa = <<>> /\ raw_cities = <<>> /\ raw_temperature = <<>>
    /\ clean_wa = <<>> /\ clean_cities = <<>> /\ clean_temperature = <<>>
    /\ athletes = <<>> /\ events = <<>> /\ venues = <<>>
    /\ weather_conditions = <<>> /\ performances = <<>>

InitParse == pc = "parse" /\ arg \in ParseInputs /\ ret = Unset /\ EmptyDb

ParseResult ==
    /\ pc = "parse"
    /\ ret' = parse_time_result(arg.raw)
    /\ pc' = "parsed"
    /\ UNCHANGED <<arg, dbVars>>

NextParse == ParseResult

SpecParse == InitParse /\ [][NextParse]_vars

\* the trimmed text is a number, or two or three numbers separated by colons
ParsesAsResult(s) ==
    LET parts == SplitOn(Strip(s), ":")
    IN  Len(parts) \in 1..3 /\ \A i \in 1..Len(parts) : Float(parts[i]) # ValueError

\* C1: parse_time_result returns None (not 0, no exception) for DNF, DQ, DNS, NM
\* and the empty string after trimming, and for every text that is neither a
\* number nor a colon separated time.
C1_NonResultIsNone ==
    (pc = "parsed" /\ (Strip(arg.raw) \in NonResults \/ ~ParsesAsResult(arg.raw)))
        => ret = None

C1_Witness ==
    /\ pc = "parsed" /\ arg.raw = " DNF " /\ ret = None

\* C3: a valid time text parses to 60*MM + SS.ss with one colon, to
\* 3600*HH + 60*MM + SS.ss with two colons and to the number itself with none.
C3_TimeValue ==
    (pc = "parsed" /\ arg.time.colons >= 0)
        => ret = Dec((3600 * arg.time.hh + 60 * arg.time.mm + arg.time.ss) * 100 + arg.time.cs, 2)

C3_Witness ==
    /\ pc = "parsed" /\ arg.raw = "3:45.20" /\ ret = Dec(22520, 2)

(***************************************************************************)
(* 02b_load_reconciled.py: reconcile_athletes.normalize_athlete_name       *)
(***************************************************************************)
suffixes_to_remove == <<" JR", " SR", " III", " II", " JUNIOR", " SENIOR">>

\* one turn of the suffix loop
StripSuffix(normalized, suffix) ==
    IF EndsWith(normalized, suffix)
    THEN Strip(SubSeq(normalized, 1, Len(normalized) - Len(suffix)))
    ELSE normalized

RECURSIVE StripSuffixes(_, _)
\* for suffix in suffixes_to_remove: ... (one pass over the list, in order)
StripSuffixes(normalized, suffixes) ==
    IF Len(suffixes) = 0 THEN normalized
    ELSE StripSuffixes(StripSuffix(normalized, Head(suffixes)), Tail(suffixes))

RemovePunctuation(s) == RemoveCh(RemoveCh(RemoveCh(s, "."), ","), "'")

normalize_athlete_name(name) ==
    IF name = NULL THEN NULL
    ELSE StripSuffixes(RemovePunctuation(JoinSp(Words(Strip(Upper(name))))),
                       suffixes_to_remove)

(***************************************************************************)
(* Specification SpecName: the normaliser applied, then applied to its own *)
(* result                                                                  *)
(***************************************************************************)
MaxPieces == 3

NamePieces == {"A", "b", " ", ".", ",", "'", " JR", " SR", " II", " III", " JUNIOR", " SENIOR"}

RECURSIVE PieceStrings(_, _)
\* every concatenation of at most n pieces
PieceStrings(pieces, n) ==
    IF n = 0 THEN {""}
    ELSE LET shorter == PieceStrings(pieces, n - 1)
         IN  shorter \cup {s \o q : s \in shorter, q \in pieces}

InitName ==
    pc = "normalize" /\ arg \in PieceStrings(NamePieces, MaxPieces) /\ ret = <<>> /\ EmptyDb

NormalizeName ==
    /\ pc = "normalize"
    /\ ret' = <<normalize_athlete_name(arg)>>
    /\ pc' = "renormalize"
    /\ UNCHANGED <<arg, dbVars>>

NormalizeAgain ==
    /\ pc = "renormalize"
    /\ ret' = Append(ret, normalize_athlete_name(ret[1]))
    /\ pc' = "normalized"
    /\ UNCHANGED <<arg, dbVars>>

NextName == NormalizeName \/ NormalizeAgain

SpecName == InitName /\ [][NextName]_vars

\* C4: normalize_athlete_name is idempotent: normalising a normalised name
\* returns it unchanged, for every input text.
C4_Idempotent == pc = "normalized" => ret[2] = ret[1]

(***************************************************************************)
(* Regular expression helpers (Python re, leftmost match, greedy)          *)
(***************************************************************************)
\* re.search found nothing
NoMatch == NULL

\* the end of the run of digits that starts at the digit s[i]
RunEnd(s, i) ==
    CHOOSE j \in i..Len(s) :
        /\ \A k \in i..j : IsDigit(Ch(s, k))
        /\ (j = Len(s) \/ ~IsDigit(Ch(s, j + 1)))

\* \s* from p: the first position at or after p that holds no blank
SkipSp(s, p) ==
    CHOOSE q \in p..(Len(s) + 1) :
        /\ \A k \in p..(q - 1) : IsSpace(Ch(s, k))
        /\ (q = Len(s) + 1 \/ ~IsSpace(Ch(s, q)))

\* \w
WordAt(s, k) == k \in 1..Len(s) /\ (IsLetter(Ch(s, k)) \/ IsDigit(Ch(s, k)) \/ Ch(s, k) = "_")

\* \b between s[p-1] and s[p]
BoundaryAt(s, p) == WordAt(s, p - 1) # WordAt(s, p)

\* (?:a|b|c) at p: the positions right after an alternative that matches
AfterAny(s, p, lits) == {p + Len(l) : l \in {x \in lits : MatchAt(s, p, x)}}

\* the leftmost position that satisfies Ok, 0 when there is none
FirstPos(s, Ok(_)) ==
    IF \E i \in 1..Len(s) : Ok(i)
    THEN CHOOSE i \in 1..Len(s) : Ok(i) /\ \A j \in 1..(i - 1) : ~Ok(j)
    ELSE 0

\* \d+(?:\.\d+)? from the digit s[i]: where it ends
NumEnd(s, i) ==
    LET r == RunEnd(s, i)
    IN  IF r + 2 <= Len(s) /\ Ch(s, r + 1) = "." /\ IsDigit(Ch(s, r + 2))
        THEN RunEnd(s, r + 2)
        ELSE r

MeterUnits == {"metres", "meters", "m"}

KmUnits == {"kilometres", "kilometers", "km"}

(***************************************************************************)
(* 02b_load_reconciled.py: reconcile_events.categorize                     *)
(***************************************************************************)
AnyIn(e, keys) == \E x \in keys : Contains(e, x)

SprintKeys == {"100 metres", "200 metres", "300 metres", "400 metres", "60 metres"}

RoadKeys == {"kilometres race walk", "kilometres"}

DistanceKeys ==
    {"600", "800", "1000", "1500", "2000", "3000", "5000", "10000", "marathon", "mile",
     "metres race walk"}

\* the chain after the hurdles test
CategorizeRest(e) ==
    IF Contains(e, "jump") THEN "Jumps"
    ELSE IF Contains(e, "throw") \/ Contains(e, "put") \/ Contains(e, "vault") THEN "Throws"
    ELSE IF AnyIn(e, SprintKeys) THEN "Sprint"
    ELSE IF AnyIn(e, RoadKeys) THEN "Distance (Road)"
    ELSE IF AnyIn(e, DistanceKeys) THEN "Distance"
    ELSE "Other"

\* a slip: the distance keywords tested before the hurdles keyword
CategorizeLowerDistanceFirst(e) ==
    IF AnyIn(e, SprintKeys) THEN "Sprint"
    ELSE IF AnyIn(e, DistanceKeys) THEN "Distance"
    ELSE IF Contains(e, "hurdles") THEN "Hurdles"
    ELSE CategorizeRest(e)

CategorizeLower(e) ==
    IF Contains(e, "hurdles") THEN "Hurdles" ELSE CategorizeRest(e)

categorize(event) == CategorizeLower(Lower(event))

(***************************************************************************)
(* 02b_load_reconciled.py: reconcile_events.extract_distance               *)
(***************************************************************************)
\* return None
NoDistance == -1

\* r'(\d+(?:\.\d+)?)\s*mile'
MileNumber(s) ==
    LET Ok(i) == IsDigit(Ch(s, i)) /\ MatchAt(s, SkipSp(s, NumEnd(s, i) + 1), "mile")
        i == FirstPos(s, Ok)
    IN  IF i = 0 THEN NoMatch ELSE SubSeq(s, i, NumEnd(s, i))

MileWords == {"one", "two", "three", "four", "five", "half"}

\* r'(one|two|three|four|five|half)\s+mile'
MileWord(s) ==
    LET Hit(i, w) ==
            /\ MatchAt(s, i, w)
            /\ i + Len(w) <= Len(s) /\ IsSpace(Ch(s, i + Len(w)))
            /\ MatchAt(s, SkipSp(s, i + Len(w)), "mile")
        Ok(i) == \E w \in MileWords : Hit(i, w)
        i == FirstPos(s, Ok)
    IN  IF i = 0 THEN NoMatch ELSE CHOOSE w \in MileWords : Hit(i, w)

\* r'(\d+)\s*mi\b'
MileShort(s) ==
    LET Ok(i) ==
            /\ IsDigit(Ch(s, i))
            /\ LET p == SkipSp(s, RunEnd(s, i) + 1)
               IN  MatchAt(s, p, "mi") /\ BoundaryAt(s, p + 2)
        i == FirstPos(s, Ok)
    IN  IF i = 0 THEN NoMatch ELSE SubSeq(s, i, RunEnd(s, i))

word_to_number(w) ==
    CASE w = "one" -> Whole(1) [] w = "two" -> Whole(2) [] w = "three" -> Whole(3)
      [] w = "four" -> Whole(4) [] w = "five" -> Whole(5) [] w = "half" -> Dec(5, 1)

\* int(distance_miles * 1609.344), whole miles and the fraction taken apart
MilesToMeters(v) ==
    LET q == v.m \div Pow10(v.e)
        r == v.m % Pow10(v.e)
    IN  q * 1609 + (q * 344 * Pow10(v.e) + r * 1609344) \div Pow10(v.e + 3)

\* step 1: the first mile pattern that matches decides
MileDistance(s) ==
    IF MileNumber(s) # NoMatch THEN MilesToMeters(Float(MileNumber(s)))
    ELSE IF MileWord(s) # NoMatch THEN MilesToMeters(word_to_number(MileWord(s)))
    ELSE IF MileShort(s) # NoMatch THEN MilesToMeters(Float(MileShort(s)))
    ELSE NoDistance

\* r'(\d+)\s*(?:metres|meters|m)\b'
MeterWord(s) ==
    LET Ok(i) ==
            /\ IsDigit(Ch(s, i))
            /\ \E q \in AfterAny(s, SkipSp(s, RunEnd(s, i) + 1), MeterUnits) : BoundaryAt(s, q)
        i == FirstPos(s, Ok)
    IN  IF i = 0 THEN NoMatch ELSE SubSeq(s, i, RunEnd(s, i))

\* r'(\d+)\s*(?=m\s)'
MeterBeforeBlank(s) ==
    LET Ok(i) == IsDigit(Ch(s, i)) /\ MatchAt(s, SkipSp(s, RunEnd(s, i) + 1), "m ")
        i == FirstPos(s, Ok)
    IN  IF i = 0 THEN NoMatch ELSE SubSeq(s, i, RunEnd(s, i))

\* r'(\d+)m(?=\s|$)'
MeterAtEnd(s) ==
    LET Ok(i) ==
            /\ IsDigit(Ch(s, i))
            /\ LET p == RunEnd(s, i) + 1
               IN  MatchAt(s, p, "m") /\ (p = Len(s) \/ IsSpace(Ch(s, p + 1)))
        i == FirstPos(s, Ok)
    IN  IF i = 0 THEN NoMatch ELSE SubSeq(s, i, RunEnd(s, i))

\* step 2: the first metre pattern that matches decides
MeterDistance(s) ==
    IF MeterWord(s) # NoMatch THEN DigitsValue(MeterWord(s))
    ELSE IF MeterBeforeBlank(s) # NoMatch THEN DigitsValue(MeterBeforeBlank(s))
    ELSE IF MeterAtEnd(s) # NoMatch THEN DigitsValue(MeterAtEnd(s))
    ELSE NoDistance

\* r'(\d+(?:\.\d+)?)\s*(?:kilometres|kilometers|km)\b'
KmNumber(s) ==
    LET Ok(i) ==
            /\ IsDigit(Ch(s, i))
            /\ \E q \in AfterAny(s, SkipSp(s, NumEnd(s, i) + 1), KmUnits) : BoundaryAt(s, q)
        i == FirstPos(s, Ok)
    IN  IF i = 0 THEN NoMatch ELSE SubSeq(s, i, NumEnd(s, i))

\* step 3: int(distance_km * 1000)
KmDistance(s) ==
    IF KmNumber(s) # NoMatch
    THEN LET v == Float(KmNumber(s)) IN (v.m * 1000) \div Pow10(v.e)
    ELSE NoDistance

\* special_distances, in the dictionary's order
special_distances ==
    << <<"marathon", 42195>>, <<"half marathon", 21098>>, <<"steeplechase", 3000>>,
       <<"110m hurdles", 110>>, <<"100m hurdles", 100>>, <<"400m hurdles", 400>> >>

\* r'(\d+)(?:m|metres|meters)?\s*steeplechase'
SteepleNumber(s) ==
    LET Ok(i) ==
            /\ IsDigit(Ch(s, i))
            /\ LET r == RunEnd(s, i) + 1
               IN  \E q \in AfterAny(s, r, MeterUnits) \cup {r} :
                       MatchAt(s, SkipSp(s, q), "steeplechase")
        i == FirstPos(s, Ok)
    IN  IF i = 0 THEN NoMatch ELSE SubSeq(s, i, RunEnd(s, i))

RECURSIVE SpecialDistance(_, _)
\* step 4: the first key of the table found in the name decides
SpecialDistance(s, table) ==
    IF Len(table) = 0 THEN NoDistance
    ELSE LET key == Head(table)[1]
             distance == Head(table)[2]
         IN  IF Contains(s, key)
             THEN IF Contains(key, "steeplechase") /\ SteepleNumber(s) # NoMatch
                  THEN DigitsValue(SteepleNumber(s))
                  ELSE distance
             ELSE SpecialDistance(s, Tail(table))

\* 'relay' occurs at or after position p
RelayFrom(s, p) == \E k \in p..Len(s) : k >= 1 /\ MatchAt(s, k, "relay")

\* r'(\d+)(?:m|metres|meters)?\s*(?:x\s*)?(\d+)(?:m|metres|meters)?.*relay'
\* from the digit s[i] with group 1 the whole run s[i..r]: where group 2 starts (0: no match)
RelaySecond(s, i) ==
    LET r == RunEnd(s, i) + 1
        afterUnit == AfterAny(s, r, MeterUnits) \cup {r}
        afterX == {SkipSp(s, q) : q \in afterUnit}
                      \cup {SkipSp(s, SkipSp(s, q) + 1) :
                                q \in {u \in afterUnit : MatchAt(s, SkipSp(s, u), "x")}}
        starts == {p \in afterX : p <= Len(s) /\ IsDigit(Ch(s, p))
                                   /\ RelayFrom(s, RunEnd(s, p) + 1)}
    IN  IF starts = {} THEN 0 ELSE CHOOSE p \in starts : TRUE

\* group 2 of the relay pattern: the second number, or, when the first run of
\* digits is followed by no second number, the last digit of that run
RelayLeg(s) ==
    LET Split(i) == RunEnd(s, i) > i /\ RelayFrom(s, RunEnd(s, i) + 1)
        Ok(i) == IsDigit(Ch(s, i)) /\ (RelaySecond(s, i) # 0 \/ Split(i))
        i == FirstPos(s, Ok)
    IN  IF i = 0 THEN NoMatch
        ELSE IF RelaySecond(s, i) # 0
        THEN SubSeq(s, RelaySecond(s, i), RunEnd(s, RelaySecond(s, i)))
        ELSE Ch(s, RunEnd(s, i))

\* step 5
RelayDistance(s) == IF RelayLeg(s) # NoMatch THEN DigitsValue(RelayLeg(s)) ELSE NoDistance

extract_distance(event) ==
    IF event = NULL \/ event = "" THEN NoDistance
    ELSE LET s == Lower(event)
         IN  IF MileDistance(s) # NoDistance THEN MileDistance(s)
             ELSE IF MeterDistance(s) # NoDistance THEN MeterDistance(s)
             ELSE IF KmDistance(s) # NoDistance THEN KmDistance(s)
             ELSE IF SpecialDistance(s, special_distances) # NoDistance
             THEN SpecialDistance(s, special_distances)
             ELSE RelayDistance(s)

(***************************************************************************)
(* Specification SpecEvent: one event name classified                      *)
(***************************************************************************)
MaxEventPieces == 3

MaxDigits == 5

EventPieces ==
    {"4x", "400", "110", "100", "m", " Metres", " Hurdles", "Marathon", "Half ", " Relay",
     " Mile", " Steeplechase"}

\* no run of more than MaxDigits digits
ShortNumbers(s) == \A i \in 1..Len(s) : IsDigit(Ch(s, i)) => RunEnd(s, i) - i < MaxDigits

\* event names of the source file, and further spellings
EventTokens ==
    {"100 Metres", "110 Metres Hurdles", "100 Metres Hurdles", "400 Metres Hurdles",
     "110m Hurdles", "100m hurdles", "60 METRES HURDLES", "3000 Metres Steeplechase",
     "2000m Steeplechase", "4x400 Metres Relay", "4x400m Relay", "4 x 400 Relay",
     "4x100 Metres Relay", "Marathon", "Half Marathon", "HALF MARATHON", "One Mile",
     "1.5 Mile", "5 mi", "10 Kilometres", "20 Kilometres Race Walk", "10 km", "Long Jump",
     "Shot Put", "Pole Vault", "Discus Throw", "Decathlon", "Heptathlon", "800 Metres",
     "1500 Metres", "5000 Metres", "10,000 Metres", "1500m", "Medley Relay", "400 Relay"}

EventInputs ==
    {s \in PieceStrings(EventPieces, MaxEventPieces) : ShortNumbers(s)} \cup EventTokens

InitEvent == pc = "classify" /\ arg \in EventInputs /\ ret = Unset /\ EmptyDb

ClassifyEvent ==
    /\ pc = "classify"
    /\ ret' = [event_group |-> categorize(arg), distance_meters |-> extract_distance(arg)]
    /\ pc' = "classified"
    /\ UNCHANGED <<arg, dbVars>>

NextEvent == ClassifyEvent

SpecEvent == InitEvent /\ [][NextEvent]_vars

\* C6: every event name containing "hurdles" in any letter case is assigned
\* the group Hurdles, whatever distance number it contains.
C6_HurdlesFirst ==
    (pc = "classified" /\ Contains(Lower(arg), "hurdles")) => ret.event_group = "Hurdles"

C6_Witness ==
    /\ pc = "classified" /\ arg = "100 Metres Hurdles" /\ ret.event_group = "Hurdles"

\* C7: extract_distance gives 42195 for "Marathon", 21098 for "Half Marathon"
\* and the leg distance 400 for "4x400m Relay".
C7_NamedDistances ==
    pc = "classified" =>
        /\ (arg = "Marathon" => ret.distance_meters = 42195)
        /\ (arg = "Half Marathon" => ret.distance_meters = 21098)
        /\ (arg = "4x400m Relay" => ret.distance_meters = 400)

(***************************************************************************)
(* Tables are sequences of rows (records); a data frame is one too.        *)
(***************************************************************************)
\* [f(row) for row in rows]
MapRows(rows, F(_)) == [i \in 1..Len(rows) |-> F(rows[i])]

\* df[mask]: the rows that pass Keep, in order
FilterRows(rows, Keep(_)) ==
    LET kept == {i \in 1..Len(rows) : Keep(rows[i])}
    IN  [j \in 1..Cardinality(kept) |->
            rows[CHOOSE i \in kept : Cardinality({k \in kept : k < i}) = j - 1]]

\* drop_duplicates(subset, keep='first'): a row stays when no earlier row has its key
DropDuplicates(rows, Key(_)) ==
    LET first == {i \in 1..Len(rows) : \A j \in 1..(i - 1) : Key(rows[j]) # Key(rows[i])}
        RECURSIVE Pick(_)
        Pick(k) == IF k > Len(rows) THEN <<>>
                   ELSE (IF k \in first THEN <<rows[k]>> ELSE <<>>) \o Pick(k + 1)
    IN  Pick(1)

Range(rows) == {rows[i] : i \in 1..Len(rows)}

\* the characters of the model in code point order
CodePoints == " '(),-.0123456789:ABCDEFGHIJKLMNOPQRSTUVWXYZ_abcdefghijklmnopqrstuvwxyz"

RECURSIVE StrLess(_, _)
\* a < b for Python str
StrLess(a, b) ==
    IF Len(b) = 0 THEN FALSE
    ELSE IF Len(a) = 0 THEN TRUE
    ELSE IF Head(a) = Head(b) THEN StrLess(Tail(a), Tail(b))
    ELSE IndexIn(CodePoints, Head(a)) < IndexIn(CodePoints, Head(b))

\* a sorts before b in a text column, NA last
TextBefore(a, b) == a # NULL /\ (b = NULL \/ StrLess(a, b))

\* a stable sort: rows in the order Before, ties in their given order
SortRows(rows, Before(_, _)) ==
    LET RECURSIVE Insert(_, _)
        Insert(sorted, row) ==
            IF Len(sorted) = 0 THEN <<row>>
            ELSE IF Before(row, sorted[Len(sorted)])
            THEN Insert(SubSeq(sorted, 1, Len(sorted) - 1), row) \o <<sorted[Len(sorted)]>>
            ELSE Append(sorted, row)
        RECURSIVE Build(_)
        Build(k) == IF k = 0 THEN <<>> ELSE Insert(Build(k - 1), rows[k])
    IN  Build(Len(rows))

\* str.title(): a letter is upper case after a character that is no letter, lower case otherwise
Title(s) ==
    LET RECURSIVE T(_)
        T(k) == IF k > Len(s) THEN ""
                ELSE (IF k > 1 /\ IsLetter(Ch(s, k - 1)) THEN LowerCh(Ch(s, k)) ELSE UpperCh(Ch(s, k)))
                     \o T(k + 1)
    IN  T(1)

(***************************************************************************)
(* 02_transform.py: clean_result_values, standardize_event_names,          *)
(* clean_world_athletics_data                                              *)
(***************************************************************************)
\* DATA_QUALITY['min_result_value'] = 0.1
min_result_value == Dec(1, 1)

\* DATA_QUALITY['max_result_value'] = 50000
max_result_value == Whole(50000)

\* a slip: the sanity window not applied
InWindowAlways(r) == TRUE

\* (result_numeric >= min_result_value) & (result_numeric <= max_result_value)
InWindow(r) == Leq(min_result_value, r) /\ Leq(r, max_result_value)

\* pandas isna() of a numeric cell
IsNA(v) == v = None \/ v = NaN

clean_result_values(df) ==
    LET parsed == MapRows(df, LAMBDA row :
                      [row EXCEPT !.result_numeric = parse_time_result(row.result_value)])
        notna  == FilterRows(parsed, LAMBDA row : ~IsNA(row.result_numeric))
    IN  FilterRows(notna, LAMBDA row : InWindow(row.result_numeric))

\* event_mapping: the spellings that are renamed, by the name they get
event_mapping ==
    << <<{"100m", "100 metres", "100 meters", "100M"}, "100m">>,
       <<{"200m", "200 metres", "200 meters", "200M"}, "200m">>,
       <<{"400m", "400 metres", "400 meters", "400M"}, "400m">>,
       <<{"60m", "60 metres", "60 meters"}, "60m">>,
       <<{"800m", "800 metres", "800 meters"}, "800m">>,
       <<{"1500m", "1500 metres", "1500 meters"}, "1500m">>,
       <<{"5000m", "5000 metres", "5000 meters"}, "5000m">>,
       <<{"10000m", "10000 metres", "10000 meters"}, "10000m">>,
       <<{"Marathon", "marathon"}, "Marathon">>,
       <<{"110m Hurdles", "110m hurdles"}, "110m Hurdles">>,
       <<{"100m Hurdles", "100m hurdles"}, "100m Hurdles">>,
       <<{"400m Hurdles", "400m hurdles"}, "400m Hurdles">>,
       <<{"Long Jump", "long jump", "LJ"}, "Long Jump">>,
       <<{"High Jump", "high jump", "HJ"}, "High Jump">>,
       <<{"Triple Jump", "triple jump", "TJ"}, "Triple Jump">>,
       <<{"Pole Vault", "pole vault", "PV"}, "Pole Vault">>,
       <<{"Shot Put", "shot put", "SP"}, "Shot Put">>,
       <<{"Discus Throw", "discus throw", "DT"}, "Discus Throw">>,
       <<{"Hammer Throw", "hammer throw", "HT"}, "Hammer Throw">>,
       <<{"Javelin Throw", "javelin throw", "JT"}, "Javelin Throw">> >>

\* df['event_name'].map(event_mapping).fillna(df['event_name'])
event_clean_of(event_name) ==
    IF \E k \in 1..Len(event_mapping) : event_name \in event_mapping[k][1]
    THEN event_mapping[CHOOSE k \in 1..Len(event_mapping) : event_name \in event_mapping[k][1]][2]
    ELSE event_name

standardize_event_names(df) ==
    MapRows(df, LAMBDA row : [row EXCEPT !.event_clean = event_clean_of(row.event_name)])

\* .str.strip().str.upper() of a text column: NA stays NA
StripUpper(v) == IF v = NULL THEN NULL ELSE Upper(Strip(v))

\* the data frame built from the raw table: one row per raw row, src its index
SelectColumns(raw) ==
    [i \in 1..Len(raw) |->
        [src |-> i,
         athlete_name |-> raw[i].Competitor,
         event_name |-> raw[i].Event,
         result_value |-> raw[i].Mark,
         venue_name |-> raw[i].Venue,
         competition_date |-> raw[i].Date,
         nationality |-> raw[i].Nat,
         gender |-> raw[i].Sex,
         result_numeric |-> None,
         event_clean |-> NULL,
         data_source |-> NULL]]

\* the data frame clean_world_athletics_data saves
CleanWorldAthletics(raw) ==
    LET essential == FilterRows(SelectColumns(raw), LAMBDA row :
                         row.athlete_name # NULL /\ row.event_name # NULL /\ row.result_value # NULL)
        named == standardize_event_names(clean_result_values(essential))
    IN  MapRows(named, LAMBDA row :
            [row EXCEPT !.athlete_name = StripUpper(row.athlete_name),
                        !.venue_name = StripUpper(row.venue_name),
                        !.data_source = "World_Athletics"])

\* chunked_save_to_postgres: the first chunk replaces the table and the others append;
\* a frame without rows has no chunk, and the table stays as it was
chunked_save_to_postgres(df, table) == IF Len(df) = 0 THEN table ELSE df

clean_world_athletics_data ==
    /\ pc = "clean_world_athletics_data"
    /\ clean_wa' = chunked_save_to_postgres(CleanWorldAthletics(raw_wa), clean_wa)
    /\ pc' = "integrate_geographic_data"
    /\ UNCHANGED <<fnVars, dwhVars, stagingVars, clean_cities, clean_temperature, reconciledVars>>

(***************************************************************************)
(* 02_transform.py: clean_city_names, integrate_geographic_data            *)
(***************************************************************************)
\* re.sub(r'[^\w\s\-\.]', '', s)
KeepCityChars(s) ==
    LET RECURSIVE K(_)
        K(k) == IF k > Len(s) THEN ""
                ELSE (IF WordAt(s, k) \/ Ch(s, k) \in {" ", "-", "."} THEN Ch(s, k) ELSE "")
                     \o K(k + 1)
    IN  K(1)

clean_city_names(city_name) ==
    IF city_name = NULL THEN "Unknown" ELSE Title(Strip(KeepCityChars(city_name)))

safe_float_convert(value) ==
    IF value = NULL THEN None
    ELSE IF Float(value) = ValueError THEN None ELSE Float(value)

\* Series.between(lo, hi) with whole bounds
Between(v, lo, hi) == Leq(Whole(lo), v) /\ Leq(v, Whole(hi))

categorize_real_altitude(alt) ==
    IF IsNA(alt) \/ Leq(alt, Whole(0)) THEN "Unknown"
    ELSE IF ~Leq(alt, Whole(1500)) THEN "High"
    ELSE IF ~Leq(alt, Whole(500)) THEN "Moderate"
    ELSE "Sea Level"

\* .fillna(100) of the altitude
DefaultAltitude == Whole(100)

CleanCities(raw) ==
    LET converted == MapRows(raw, LAMBDA c :
            [city_name |-> Upper(clean_city_names(c.City)),
             country_name |-> Upper(clean_city_names(c.Country)),
             latitude |-> safe_float_convert(c.Latitude),
             longitude |-> safe_float_convert(c.Longitude),
             altitude |-> IF IsNA(safe_float_convert(c.Altitude)) THEN DefaultAltitude
                          ELSE safe_float_convert(c.Altitude)])
        valid == FilterRows(converted, LAMBDA c :
            /\ ~IsNA(c.latitude) /\ ~IsNA(c.longitude)
            /\ Between(c.latitude, -90, 90) /\ Between(c.longitude, -180, 180))
        unique == DropDuplicates(valid, LAMBDA c : <<c.city_name, c.country_name>>)
    IN  MapRows(unique, LAMBDA c :
            [city_name |-> c.city_name, country_name |-> c.country_name,
             latitude |-> c.latitude, longitude |-> c.longitude, altitude |-> c.altitude,
             altitude_category |-> categorize_real_altitude(c.altitude),
             data_source |-> "GeoNames_Cleaned"])

integrate_geographic_data ==
    /\ pc = "integrate_geographic_data"
    /\ clean_cities' = chunked_save_to_postgres(CleanCities(raw_cities), clean_cities)
    /\ pc' = "integrate_temperature_data"
    /\ UNCHANGED <<fnVars, dwhVars, stagingVars, clean_wa, clean_temperature, reconciledVars>>

(***************************************************************************)
(* 02_transform.py: integrate_temperature_data                             *)
(* Temperatures are exact fractions [num, den], den > 0, in lowest terms.  *)
(***************************************************************************)
RECURSIVE Gcd(_, _)
Gcd(a, b) == IF b = 0 THEN a ELSE Gcd(b, a % b)

Abs(n) == IF n < 0 THEN 0 - n ELSE n

Rat(n, d) ==
    LET g == Gcd(Abs(n), d)
    IN  [num |-> n \div g, den |-> d \div g]

RatAdd(a, b) == Rat(a.num * b.den + b.num * a.den, a.den * b.den)

\* a < n for a whole number n
RatBelow(a, n) == a.num < n * a.den

\* the mean of a non-empty sequence of fractions
RatMean(xs) ==
    LET RECURSIVE Sum(_)
        Sum(k) == IF k = 0 THEN Rat(0, 1) ELSE RatAdd(Sum(k - 1), xs[k])
    IN  Rat(Sum(Len(xs)).num, Sum(Len(xs)).den * Len(xs))

\* DATA_QUALITY['min_year'], DATA_QUALITY['max_year']
min_year == 1990

max_year == 2024

\* the mean above which the table is taken to be in Fahrenheit
FahrenheitMean == 40

\* (F - 32) * 5/9
ToCelsius(t) == Rat((t.num - 32 * t.den) * 5, t.den * 9)

categorize_temperature(temp) ==
    IF RatBelow(temp, 10) THEN "Cold"
    ELSE IF RatBelow(temp, 18) THEN "Cool"
    ELSE IF RatBelow(temp, 24) THEN "Moderate"
    ELSE IF RatBelow(temp, 30) THEN "Warm"
    ELSE "Hot"

\* key order of groupby(['City', 'Country', 'Month'])
GroupBefore(a, b) ==
    \/ StrLess(a.City, b.City)
    \/ a.City = b.City /\ StrLess(a.Country, b.Country)
    \/ a.City = b.City /\ a.Country = b.Country /\ a.Month < b.Month

\* groupby(['City', 'Country', 'Month'])['AvgTemperature'].mean().reset_index():
\* one row per key, keys sorted, rows with an NA key left out
MonthlyAverages(rows) ==
    LET keyed == FilterRows(rows, LAMBDA t : t.City # NULL /\ t.Country # NULL)
        KeyOf(t) == <<t.City, t.Country, t.Month>>
        groups == SortRows(DropDuplicates(keyed, KeyOf), GroupBefore)
    IN  MapRows(groups, LAMBDA g :
            [City |-> g.City, Country |-> g.Country, Month |-> g.Month,
             AvgTemperature |->
                 RatMean(MapRows(FilterRows(keyed, LAMBDA t : KeyOf(t) = KeyOf(g)),
                                 LAMBDA t : Rat(t.AvgTemperature.m, Pow10(t.AvgTemperature.e))))])

CleanTemperature(raw) ==
    LET kept == FilterRows(raw, LAMBDA t :
                    ~IsNA(t.AvgTemperature) /\ t.Year >= min_year /\ t.Year <= max_year)
        monthly_avg == MonthlyAverages(kept)
        fahrenheit == Len(monthly_avg) > 0
                      /\ ~RatBelow(RatMean(MapRows(monthly_avg, LAMBDA t : t.AvgTemperature)),
                                   FahrenheitMean)
                      /\ RatMean(MapRows(monthly_avg, LAMBDA t : t.AvgTemperature))
                             # Rat(FahrenheitMean, 1)
    IN  MapRows(monthly_avg, LAMBDA t :
            LET temp == IF fahrenheit THEN ToCelsius(t.AvgTemperature) ELSE t.AvgTemperature
            IN  [City |-> t.City, Country |-> t.Country, Month |-> t.Month,
                 AvgTemperature |-> temp,
                 temperature_category |-> categorize_temperature(temp),
                 data_source |-> "City_Temperature"])

integrate_temperature_data ==
    /\ pc = "integrate_temperature_data"
    /\ clean_temperature' = chunked_save_to_postgres(CleanTemperature(raw_temperature), clean_temperature)
    /\ pc' = "clear_reconciled_tables"
    /\ UNCHANGED <<fnVars, dwhVars, stagingVars, clean_wa, clean_cities, reconciledVars>>

(***************************************************************************)
(* Storage: SELECT DISTINCT, identity keys, TRUNCATE                       *)
(***************************************************************************)
\* every order in which the rows of a set can be returned
Orders(S) ==
    {f \in [1..Cardinality(S) -> S] : \A i, j \in 1..Cardinality(S) : f[i] = f[j] => i = j}

\* to_sql(if_exists='append') into a table with an identity column named key:
\* the new rows get the next identity values
AppendRows(table, key, rows) ==
    table \o [i \in 1..Len(rows) |-> [k \in {key} |-> Len(table) + i] @@ rows[i]]

(***************************************************************************)
(* 02b_load_reconciled.py: clear_reconciled_tables                         *)
(***************************************************************************)
clear_reconciled_tables ==
    /\ pc = "clear_reconciled_tables"
    /\ performances' = <<>>
    /\ weather_conditions' = <<>>
    /\ venues' = <<>>
    /\ events' = <<>>
    /\ athletes' = <<>>
    /\ pc' = "reconcile_athletes"
    /\ UNCHANGED <<fnVars, dwhVars, stagingVars, cleanVars>>

(***************************************************************************)
(* 02b_load_reconciled.py: reconcile_athletes                              *)
(***************************************************************************)
normalize_gender(gender_val) ==
    IF gender_val = NULL THEN "U"
    ELSE IF Strip(Lower(gender_val)) \in {"female", "f", "w"} THEN "F"
    ELSE IF Strip(Lower(gender_val)) \in {"male", "m"} THEN "M"
    ELSE "U"

\* the rows SELECT DISTINCT athlete_name, nationality, gender, data_source can return
AthleteCandidates(table) ==
    {[athlete_name |-> r.athlete_name, nationality |-> r.nationality,
      gender |-> r.gender, data_source |-> r.data_source] :
        r \in {x \in Range(table) : x.athlete_name # NULL}}

\* a slip: the sort with na_position='first'
AthleteBeforeNullsFirst(a, b) ==
    LET NullsFirst(x, y) == y # NULL /\ (x = NULL \/ StrLess(x, y))
    IN  \/ NullsFirst(a.athlete_name_normalized, b.athlete_name_normalized)
        \/ /\ a.athlete_name_normalized = b.athlete_name_normalized
           /\ \/ NullsFirst(a.nationality, b.nationality)
              \/ a.nationality = b.nationality /\ NullsFirst(a.data_source, b.data_source)

\* sort_values(by=[athlete_name_normalized, nationality, data_source], na_position='last')
AthleteBefore(a, b) ==
    \/ TextBefore(a.athlete_name_normalized, b.athlete_name_normalized)
    \/ /\ a.athlete_name_normalized = b.athlete_name_normalized
       /\ \/ TextBefore(a.nationality, b.nationality)
          \/ a.nationality = b.nationality /\ TextBefore(a.data_source, b.data_source)

\* a slip: no deduplication
KeepAllAthletes(df) == SortRows(df, AthleteBefore)

\* drop_duplicates(subset=['athlete_name_normalized'], keep='first') of the sorted frame
DeduplicateAthletes(df) ==
    DropDuplicates(SortRows(df, AthleteBefore), LAMBDA a : a.athlete_name_normalized)

\* .str.strip().str.title() of a text column: NA stays NA
StripTitle(v) == IF v = NULL THEN NULL ELSE Title(Strip(v))

\* the frame reconcile_athletes appends, from the query's rows in the order returned
ReconciledAthletes(df) ==
    LET normalized == MapRows(df, LAMBDA r :
            [athlete_name_normalized |-> normalize_athlete_name(r.athlete_name)] @@ r)
    IN  MapRows(DeduplicateAthletes(normalized), LAMBDA a :
            [athlete_name |-> a.athlete_name,
             athlete_name_clean |-> StripTitle(a.athlete_name),
             nationality_standardized |-> StripTitle(a.nationality),
             nationality_code |-> IF a.nationality = NULL THEN NULL
                                  ELSE SubSeq(Upper(a.nationality), 1,
                                              IF Len(a.nationality) < 3 THEN Len(a.nationality) ELSE 3),
             gender |-> normalize_gender(a.gender),
             source_system |-> a.data_source])

reconcile_athletes ==
    /\ pc = "reconcile_athletes"
    /\ \E df \in Orders(AthleteCandidates(clean_wa)) :
           athletes' = AppendRows(athletes, "athlete_key", ReconciledAthletes(df))
    /\ pc' = "reconcile_events"
    /\ UNCHANGED <<fnVars, dwhVars, stagingVars, cleanVars, events, venues, weather_conditions, performances>>

(***************************************************************************)
(* 02b_load_reconciled.py: reconcile_events                                *)
(***************************************************************************)
\* a slip: the multi-event filter matching in the given case only
IsMultiEventExactCase(event_name) ==
    Contains(event_name, "Decathlon") \/ Contains(event_name, "Heptathlon")

\* str.contains('(?i)(?:decathlon|heptathlon)')
IsMultiEvent(event_name) ==
    Contains(Lower(event_name), "decathlon") \/ Contains(Lower(event_name), "heptathlon")

get_category(group) ==
    IF group \in {"Sprint", "Distance", "Hurdles"} THEN "Track"
    ELSE IF group \in {"Throws", "Jumps"} THEN "Field"
    ELSE IF group \in {"Distance (Road)"} THEN "Road"
    ELSE "Multi-event"

get_measurement_unit(category) ==
    IF category = "Track" \/ category = "Road" THEN "seconds" ELSE "meters"

\* the literal '30 Kilometres Race Walk' is looked for in the lower-cased name
assign_gender(event_name) ==
    LET event_str == Lower(event_name)
    IN  IF event_name = NULL THEN "Mixed"
        ELSE IF (Contains(event_str, "110") /\ Contains(event_str, "hurdles"))
                \/ Contains(event_str, "30 Kilometres Race Walk") THEN "M"
        ELSE IF Contains(event_str, "100") /\ Contains(event_str, "hurdles") THEN "F"
        ELSE "Mixed"

\* the rows SELECT DISTINCT event_clean can return
EventCandidates(table) == {r.event_clean : r \in {x \in Range(table) : x.event_clean # NULL}}

ReconciledEvents(names) ==
    MapRows(FilterRows(names, LAMBDA n : ~IsMultiEvent(n)), LAMBDA n :
        [event_name |-> n,
         event_name_standardized |-> n,
         event_group |-> categorize(n),
         event_category |-> get_category(categorize(n)),
         distance_meters |-> extract_distance(n),
         measurement_unit |-> get_measurement_unit(get_category(categorize(n))),
         gender |-> assign_gender(n)])

reconcile_events ==
    /\ pc = "reconcile_events"
    /\ \E df \in Orders(EventCandidates(clean_wa)) :
           events' = AppendRows(events, "event_key", ReconciledEvents(df))
    /\ pc' = "reconcile_venues"
    /\ UNCHANGED <<fnVars, dwhVars, stagingVars, cleanVars, athletes, venues, weather_conditions, performances>>

(***************************************************************************)
(* 02b_load_reconciled.py: reconcile_venues                                *)
(***************************************************************************)
\* \([A-Z]{3}\) at p
CountryAt(s, p) ==
    /\ p >= 1 /\ p + 4 <= Len(s)
    /\ Ch(s, p) = "(" /\ Ch(s, p + 4) = ")"
    /\ \A k \in (p + 1)..(p + 3) : IsUpper(Ch(s, k))

\* re.search(r'\(([A-Z]{3})\)', venue_str).group(1), 'Unknown' without a match
country_3_of(venue_str) ==
    IF \E p \in 1..Len(venue_str) : CountryAt(venue_str, p)
    THEN LET p == CHOOSE q \in 1..Len(venue_str) :
                     CountryAt(venue_str, q) /\ \A r \in 1..(q - 1) : ~CountryAt(venue_str, r)
         IN  SubSeq(venue_str, p + 1, p + 3)
    ELSE "Unknown"

country_mapping ==
    [USA |-> "US", GBR |-> "GB", GER |-> "DE", FRA |-> "FR", ITA |-> "IT",
     SUI |-> "CH", BEL |-> "BE", SWE |-> "SE", FIN |-> "FI", GRE |-> "GR",
     CHN |-> "CN", JAM |-> "JM", CUB |-> "CU", MON |-> "MC", RUS |-> "RU",
     NED |-> "NL", ESP |-> "ES", JPN |-> "JP", HUN |-> "HU", AUT |-> "AT",
     POL |-> "PL", CZE |-> "CZ", BRA |-> "BR", QAT |-> "QA", UKR |-> "UA",
     AUS |-> "AU", CRO |-> "HR", ROU |-> "RO", BUL |-> "BG", KOR |-> "KR",
     BLR |-> "BY", URS |-> "RU", NOR |-> "NO"]

country_2_of(venue_str) ==
    LET country_3 == country_3_of(venue_str)
    IN  IF country_3 \in DOMAIN country_mapping THEN country_mapping[country_3]
        ELSE IF Len(country_3) >= 2 THEN SubSeq(country_3, 1, 2) ELSE "XX"

\* the position of the first comma, 0 when there is none
FirstComma(s) ==
    IF \E i \in 1..Len(s) : Ch(s, i) = ","
    THEN CHOOSE i \in 1..Len(s) : Ch(s, i) = "," /\ \A j \in 1..(i - 1) : Ch(s, j) # ","
    ELSE 0

\* the position of the first comma at or after p, 0 when there is none
CommaFrom(s, p) ==
    IF \E i \in p..Len(s) : Ch(s, i) = ","
    THEN CHOOSE i \in p..Len(s) : Ch(s, i) = "," /\ \A j \in p..(i - 1) : Ch(s, j) # ","
    ELSE 0

\* ,\s*[A-Z]{2}\s*\([A-Z]{3}\)$ with the comma at c
StateCountryTail(s, c) ==
    LET a == SkipSp(s, c + 1)
        b == SkipSp(s, a + 2)
    IN  /\ a + 1 <= Len(s) /\ IsUpper(Ch(s, a)) /\ IsUpper(Ch(s, a + 1))
        /\ CountryAt(s, b) /\ b + 4 = Len(s)

\* [A-Za-z\s]+ fills from..to
LettersAndBlanks(s, from, to) ==
    from <= to /\ \A k \in from..to : IsLetter(Ch(s, k)) \/ IsSpace(Ch(s, k))

\* [^,()]+ fills from..to
NoCommaNoParen(s, from, to) ==
    from <= to /\ \A k \in from..to : Ch(s, k) \notin {",", "(", ")"}

\* ^([A-Za-z\s]+),\s*[A-Z]{2}\s*\([A-Z]{3}\)$
pattern1(s) ==
    LET c == FirstComma(s)
    IN  IF c > 0 /\ LettersAndBlanks(s, 1, c - 1) /\ StateCountryTail(s, c)
        THEN SubSeq(s, 1, c - 1) ELSE NoMatch

\* ^[^,]+,\s*([A-Za-z\s]+),\s*[A-Z]{2}\s*\([A-Z]{3}\)$
pattern2(s) ==
    LET c == FirstComma(s)
        d == IF c > 0 THEN CommaFrom(s, c + 1) ELSE 0
    IN  IF c > 1 /\ d > 0 /\ LettersAndBlanks(s, c + 1, d - 1) /\ StateCountryTail(s, d)
        THEN SubSeq(s, c + 1, d - 1) ELSE NoMatch

\* ^[^,]+,\s*([^,()]+?)\s*\([A-Z]{3}\)$
pattern3(s) ==
    LET c == FirstComma(s)
    IN  IF c > 1 /\ CountryAt(s, Len(s) - 4) /\ NoCommaNoParen(s, c + 1, Len(s) - 5)
        THEN SubSeq(s, c + 1, Len(s) - 5) ELSE NoMatch

\* ^([^,()]+?)\s*\([A-Z]{3}\)$
pattern4(s) ==
    IF CountryAt(s, Len(s) - 4) /\ NoCommaNoParen(s, 1, Len(s) - 5)
    THEN SubSeq(s, 1, Len(s) - 5) ELSE NoMatch

special_cases ==
    << <<"Paris-St-Denis", "Paris">>, <<"Villeneuve d'Ascq", "Lille">>,
       <<"Adler, Sochi", "Sochi">>, <<"DS, Daegu", "Daegu">>,
       <<"La Cartuja, Sevilla", "Sevilla">> >>

RECURSIVE SpecialCase(_, _)
\* the city of the first special case found in the label, 'Unknown' when none is
SpecialCase(venue_str, table) ==
    IF Len(table) = 0 THEN "Unknown"
    ELSE IF Contains(venue_str, Head(table)[1]) THEN Head(table)[2]
    ELSE SpecialCase(venue_str, Tail(table))

extract_location_from_venue(venue_name) ==
    IF venue_name = NULL THEN [city |-> "Unknown", country_2 |-> "XX"]
    ELSE LET venue_str == Strip(venue_name)
             country_2 == country_2_of(venue_str)
             group == IF pattern1(venue_str) # NoMatch THEN pattern1(venue_str)
                      ELSE IF pattern2(venue_str) # NoMatch THEN pattern2(venue_str)
                      ELSE IF pattern3(venue_str) # NoMatch THEN pattern3(venue_str)
                      ELSE pattern4(venue_str)
         IN  IF group # NoMatch THEN [city |-> Strip(group), country_2 |-> country_2]
             ELSE [city |-> SpecialCase(venue_str, special_cases), country_2 |-> country_2]

\* the keys that can be written with the letters of the model
city_standardization ==
    << <<"ROMA", "ROME">>, <<"ATHINA", "ATHENS">>, <<"BRUXELLES", "BRUSSELS">>,
       <<"LA HABANA", "HAVANA">>, <<"MOSKVA", "MOSCOW">>, <<"PRAHA", "PRAGUE">>,
       <<"WARSZAWA", "WARSAW">> >>

\* .str.upper().map(city_standardization).fillna(.str.upper())
city_standardized_of(city_extracted) ==
    LET upper == Upper(city_extracted)
        hits == {i \in 1..Len(city_standardization) : city_standardization[i][1] = upper}
    IN  IF hits = {} THEN upper ELSE city_standardization[CHOOSE i \in hits : TRUE][2]

\* DataFrame.merge(how='left'): every left row with each right row that matches it, in the
\* order of the right frame, or once with the columns of `missing`
LeftMerge(left, right, On(_, _), Columns(_), missing) ==
    LET RECURSIVE Join(_)
        Join(k) ==
            IF k > Len(left) THEN <<>>
            ELSE LET found == FilterRows(right, LAMBDA r : On(left[k], r))
                 IN  (IF Len(found) = 0 THEN <<left[k] @@ missing>>
                      ELSE MapRows(found, LAMBDA r : left[k] @@ Columns(r))) \o Join(k + 1)
    IN  Join(1)

GeoColumns(c) ==
    [city_name |-> c.city_name, country_name |-> c.country_name, latitude |-> c.latitude,
     longitude |-> c.longitude, altitude |-> c.altitude, altitude_category |-> c.altitude_category]

NoGeoColumns ==
    [city_name |-> NULL, country_name |-> NULL, latitude |-> None,
     longitude |-> None, altitude |-> None, altitude_category |-> NULL]

\* the rows SELECT DISTINCT venue_name can return
VenueCandidates(table) == {r.venue_name : r \in {x \in Range(table) : x.venue_name # NULL}}

\* SELECT ... FROM staging.clean_cities WHERE altitude IS NOT NULL, with the matching columns
CitiesFrame(table) ==
    MapRows(FilterRows(table, LAMBDA c : ~IsNA(c.altitude)), LAMBDA c :
        [city_clean |-> Upper(Strip(c.city_name)),
         country_clean |-> Upper(Strip(c.country_name))] @@ GeoColumns(c))

VenuesFrame(names) ==
    MapRows(names, LAMBDA n :
        LET info == extract_location_from_venue(n)
        IN  [venue_name |-> n,
             city_extracted |-> info.city,
             country_extracted |-> info.country_2,
             city_standardized |-> city_standardized_of(info.city),
             city_clean |-> Upper(Strip(city_standardized_of(info.city))),
             country_clean |-> Upper(Strip(info.country_2))])

\* Strategy 1: city and country
CityCountryMerge(venues_df, cities_df) ==
    LeftMerge(venues_df, cities_df,
              LAMBDA v, c : v.city_clean = c.city_clean /\ v.country_clean = c.country_clean,
              GeoColumns, NoGeoColumns)

\* Strategy 2: the rows without a latitude take the first city of that name
CityOnlyFallback(merged_df, cities_df) ==
    LET by_city == DropDuplicates(cities_df, LAMBDA c : c.city_clean)
    IN  MapRows(merged_df, LAMBDA m :
            IF ~IsNA(m.latitude) THEN m
            ELSE LET found == FilterRows(by_city, LAMBDA c : c.city_clean = m.city_clean)
                 IN  IF Len(found) = 0 THEN NoGeoColumns @@ m
                     ELSE GeoColumns(found[1]) @@ m)

AbsDec(v) == Dec(Abs(v.m), v.e)

determine_climate(lat) ==
    IF IsNA(lat) THEN "Unknown"
    ELSE IF ~Leq(Dec(235, 1), AbsDec(lat)) THEN "Tropical"
    ELSE IF ~Leq(Whole(40), AbsDec(lat)) THEN "Subtropical"
    ELSE IF ~Leq(Whole(60), AbsDec(lat)) THEN "Temperate"
    ELSE "Polar"

BothScore == 9

LatitudeOnlyScore == 7

LowestScore == 5

venue_quality_score(row) ==
    IF ~IsNA(row.latitude) /\ ~IsNA(row.altitude) THEN BothScore
    ELSE IF ~IsNA(row.latitude) THEN LatitudeOnlyScore
    ELSE LowestScore

\* a slip: venues without a latitude removed
DropUnmatchedVenues(merged_df) ==
    FilterRows(DropDuplicates(merged_df, LAMBDA m : m.venue_name), LAMBDA m : ~IsNA(m.latitude))

\* drop_duplicates(subset='venue_name', keep='first')
DeduplicateVenues(merged_df) == DropDuplicates(merged_df, LAMBDA m : m.venue_name)

\* the frame reconcile_venues appends, from the query's rows in the order returned
ReconciledVenues(names, cities) ==
    LET cities_df == CitiesFrame(cities)
        merged_df == CityOnlyFallback(CityCountryMerge(VenuesFrame(names), cities_df), cities_df)
    IN  MapRows(DeduplicateVenues(merged_df), LAMBDA m :
            [venue_name |-> m.venue_name,
             venue_name_clean |-> Title(Strip(m.venue_name)),
             city_name |-> Title(IF m.city_name = NULL THEN m.city_standardized ELSE m.city_name),
             country_name |-> Upper(IF m.country_name = NULL THEN m.country_extracted
                                    ELSE m.country_name),
             country_code |-> m.country_extracted,
             latitude |-> m.latitude, longitude |-> m.longitude, altitude |-> m.altitude,
             altitude_category |-> m.altitude_category,
             climate_zone |-> determine_climate(m.latitude),
             data_quality_score |-> venue_quality_score(m)])

\* a slip: the failure of the stage swallowed, the run going on
reconcile_venues_goes_on ==
    /\ pc = "reconcile_venues"
    /\ IF VenueCandidates(clean_wa) = {}
       THEN UNCHANGED venues
       ELSE \E df \in Orders(VenueCandidates(clean_wa)) :
                venues' = AppendRows(venues, "venue_key", ReconciledVenues(df, clean_cities))
    /\ pc' = "reconcile_weather"
    /\ UNCHANGED <<fnVars, dwhVars, stagingVars, cleanVars, athletes, events, weather_conditions, performances>>

\* without a venue the extraction percentage divides by zero, before the rows are saved
reconcile_venues ==
    /\ pc = "reconcile_venues"
    /\ IF VenueCandidates(clean_wa) = {}
       THEN pc' = "failed" /\ UNCHANGED venues
       ELSE /\ \E df \in Orders(VenueCandidates(clean_wa)) :
                   venues' = AppendRows(venues, "venue_key", ReconciledVenues(df, clean_cities))
            /\ pc' = "reconcile_weather"
    /\ UNCHANGED <<fnVars, dwhVars, stagingVars, cleanVars, athletes, events, weather_conditions, performances>>

(***************************************************************************)
(* 02b_load_reconciled.py: reconcile_weather                               *)
(***************************************************************************)
\* the keys that can be written with the letters of the model
standardization_map ==
    << <<"ROMA", "ROME">>, <<"ATHINA", "ATHENS">>, <<"BRUXELLES", "BRUSSELS">>,
       <<"LA HABANA", "HAVANA">>, <<"WIEN", "VIENNA">>, <<"MOSKVA", "MOSCOW">>,
       <<"PRAHA", "PRAGUE">>, <<"WARSZAWA", "WARSAW">> >>

standardize_weather_city_name(city_name) ==
    IF city_name = NULL THEN "UNKNOWN"
    ELSE LET city_str == Upper(Strip(city_name))
             hits == {i \in 1..Len(standardization_map) : standardization_map[i][1] = city_str}
         IN  IF hits = {} THEN city_str ELSE standardization_map[CHOOSE i \in hits : TRUE][2]

\* calendar.month_name[1..12]
month_names ==
    <<"January", "February", "March", "April", "May", "June", "July",
      "August", "September", "October", "November", "December">>

get_season(month) ==
    IF month \in {12, 1, 2} THEN "Winter"
    ELSE IF month \in {3, 4, 5} THEN "Spring"
    ELSE IF month \in {6, 7, 8} THEN "Summer"
    ELSE "Fall"

\* the CASE of the venue_cities query: LIKE compares in the given case
needed_city_patterns ==
    << <<"Sacramento", "SACRAMENTO">>, <<"Eugene", "EUGENE">>, <<"Austin", "AUSTIN">>,
       <<"Berlin", "BERLIN">>, <<"Monaco", "MONACO">>, <<"Lausanne", "LAUSANNE">>,
       <<"Kingston", "KINGSTON">>, <<"Des Moines", "DES MOINES">>,
       <<"Palo Alto", "SAN FRANCISCO">>, <<"Walnut", "LOS ANGELES">>,
       <<"Indianapolis", "INDIANAPOLIS">>, <<"Gainesville", "GAINESVILLE">>,
       <<"Knoxville", "KNOXVILLE">>, <<"Doha", "DOHA">> >>

RECURSIVE NeededCity(_, _)
NeededCity(venue_name, patterns) ==
    IF Len(patterns) = 0 THEN NULL
    ELSE IF Contains(venue_name, Head(patterns)[1]) THEN Head(patterns)[2]
    ELSE NeededCity(venue_name, Tail(patterns))

needed_cities(table) ==
    {NeededCity(n, needed_city_patterns) : n \in VenueCandidates(table)} \ {NULL}

city_climate_estimates ==
    << <<"BERLIN", <<0, 1, 5, 9, 14, 17, 19, 19, 15, 10, 5, 2>>, "Continental">>,
       <<"SACRAMENTO", <<10, 13, 16, 20, 25, 30, 33, 32, 28, 22, 15, 10>>, "Mediterranean">>,
       <<"EUGENE", <<5, 7, 10, 13, 17, 21, 24, 24, 20, 15, 9, 5>>, "Temperate">>,
       <<"AUSTIN", <<10, 13, 18, 23, 28, 32, 35, 35, 31, 25, 18, 12>>, "Subtropical">>,
       <<"MONACO", <<9, 10, 13, 16, 20, 24, 27, 27, 23, 19, 13, 10>>, "Mediterranean">>,
       <<"LAUSANNE", <<1, 3, 7, 11, 16, 20, 22, 21, 17, 12, 6, 2>>, "Temperate">>,
       <<"KINGSTON", <<25, 25, 26, 27, 28, 29, 29, 29, 28, 27, 26, 25>>, "Tropical">>,
       <<"DES MOINES", <<-5, -2, 5, 12, 18, 24, 26, 25, 20, 13, 5, -2>>, "Continental">>,
       <<"SAN FRANCISCO", <<10, 12, 13, 15, 16, 17, 17, 18, 19, 17, 14, 11>>, "Mediterranean">>,
       <<"LOS ANGELES", <<14, 15, 16, 18, 20, 22, 24, 25, 24, 21, 17, 14>>, "Mediterranean">>,
       <<"INDIANAPOLIS", <<-2, 1, 7, 14, 20, 25, 27, 26, 22, 15, 8, 1>>, "Continental">>,
       <<"GAINESVILLE", <<11, 14, 18, 22, 26, 29, 31, 31, 29, 24, 18, 13>>, "Subtropical">>,
       <<"KNOXVILLE", <<3, 6, 11, 16, 21, 26, 28, 27, 23, 17, 11, 5>>, "Subtropical">>,
       <<"DOHA", <<18, 20, 25, 30, 36, 41, 42, 41, 38, 32, 26, 20>>, "Desert">> >>

\* the twelve estimate rows of a city of city_climate_estimates
CityEstimates(city) ==
    LET city_data == city_climate_estimates[CHOOSE i \in 1..Len(city_climate_estimates) :
                                                city_climate_estimates[i][1] = city]
    IN  [month_idx \in 1..12 |->
            [venue_name |-> city,
             month_name |-> month_names[month_idx],
             temperature |-> Rat(city_data[2][month_idx], 1),
             temperature_category |-> categorize_temperature(Rat(city_data[2][month_idx], 1)),
             season_category |-> get_season(month_idx),
             has_actual_data |-> FALSE,
             weather_source |-> "Athletics_Estimate_" \o city_data[3]]]

RECURSIVE Estimates(_)
\* the estimate rows of the missing cities, in the order the set is walked
Estimates(cities) ==
    IF Len(cities) = 0 THEN <<>> ELSE CityEstimates(Head(cities)) \o Estimates(Tail(cities))

\* the rows SELECT DISTINCT "City", "Month", "AvgTemperature", ... can return
WeatherCandidates(table) ==
    {[venue_name |-> t.City, month |-> t.Month, temperature |-> t.AvgTemperature,
      temperature_category |-> t.temperature_category, data_source |-> t.data_source] :
        t \in {x \in Range(table) : x.City # NULL /\ x.temperature_category # NULL}}

ActualWeather(df) ==
    MapRows(df, LAMBDA t :
        [venue_name |-> standardize_weather_city_name(t.venue_name),
         month_name |-> month_names[t.month],
         temperature |-> t.temperature,
         temperature_category |-> t.temperature_category,
         season_category |-> get_season(t.month),
         has_actual_data |-> TRUE,
         weather_source |-> t.data_source])

\* needed_cities - existing_cities, the ones that have an estimate
missing_cities(df, table) ==
    {c \in needed_cities(table) \ {r.venue_name : r \in Range(ActualWeather(df))} :
        \E i \in 1..Len(city_climate_estimates) : city_climate_estimates[i][1] = c}

reconcile_weather ==
    /\ pc = "reconcile_weather"
    /\ \E df \in Orders(WeatherCandidates(clean_temperature)) :
       \E walk \in Orders(missing_cities(df, clean_wa)) :
           weather_conditions' =
               AppendRows(weather_conditions, "weather_key", ActualWeather(df) \o Estimates(walk))
    /\ pc' = "reconcile_performances"
    /\ UNCHANGED <<fnVars, dwhVars, stagingVars, cleanVars, athletes, events, venues, performances>>

(***************************************************************************)
(* 02b_load_reconciled.py: reconcile_performances                          *)
(***************************************************************************)
\* a key column without a value (NaN after a left merge, None from a lookup)
NoKey == 0

\* the month of pd.to_datetime(errors='coerce') for NULL, for a 'YYYY-MM-DD' text and for a
\* text without digits; 0 stands for NaT
MonthOfDate(date) ==
    IF date = NULL THEN 0
    ELSE IF /\ Len(date) = 10 /\ Ch(date, 5) = "-" /\ Ch(date, 8) = "-"
            /\ AllDigits(SubSeq(date, 1, 4)) /\ AllDigits(SubSeq(date, 6, 7))
            /\ AllDigits(SubSeq(date, 9, 10))
            /\ DigitsValue(SubSeq(date, 6, 7)) \in 1..12
            /\ DigitsValue(SubSeq(date, 9, 10)) \in 1..28
         THEN DigitsValue(SubSeq(date, 6, 7))
         ELSE 0

month_name_of(month) == IF month = 0 THEN "Unknown" ELSE month_names[month]

\* the rows of the performance query, in the order the table holds them
PerformanceRows(table) ==
    MapRows(FilterRows(table, LAMBDA a :
                /\ ~IsNA(a.result_numeric) /\ a.athlete_name # NULL /\ a.event_clean # NULL
                /\ ~Contains(Lower(a.event_clean), "decathlon")
                /\ ~Contains(Lower(a.event_clean), "heptathlon")),
            LAMBDA a :
                [src |-> a.src,
                 athlete_name |-> a.athlete_name,
                 event_name |-> a.event_clean,
                 venue_name |-> a.venue_name,
                 result_value |-> a.result_numeric,
                 competition_date |-> a.competition_date,
                 data_source |-> a.data_source,
                 month_name |-> month_name_of(MonthOfDate(a.competition_date)),
                 athlete_name_clean |-> StripTitle(a.athlete_name),
                 event_name_clean |-> a.event_clean,
                 venue_name_clean |-> StripTitle(a.venue_name)])

standardize_city_name(city) ==
    IF city = NULL THEN "UNKNOWN"
    ELSE RemoveCh(RemoveCh(RemoveCh(Upper(Strip(city)), " "), "-"), ".")

\* the three left merges with the reference tables
JoinReferences(df, athletes_t, events_t, venues_t) ==
    LET venues_dedup == DropDuplicates(venues_t, LAMBDA v : v.venue_name_clean)
        with_athlete == LeftMerge(df, athletes_t,
                            LAMBDA p, a : p.athlete_name_clean = a.athlete_name_clean,
                            LAMBDA a : [athlete_key |-> a.athlete_key],
                            [athlete_key |-> NoKey])
        with_event == LeftMerge(with_athlete, events_t,
                            LAMBDA p, e : p.event_name_clean = e.event_name_standardized,
                            LAMBDA e : [event_key |-> e.event_key],
                            [event_key |-> NoKey])
    IN  LeftMerge(with_event, venues_dedup,
                  LAMBDA p, v : p.venue_name_clean = v.venue_name_clean,
                  LAMBDA v : [venue_key |-> v.venue_key, city_name |-> v.city_name],
                  [venue_key |-> NoKey, city_name |-> NULL])

\* the weather reference frame with its standardized city
WeatherFrame(weather_t) ==
    MapRows(weather_t, LAMBDA w :
        [weather_key |-> w.weather_key, month_name |-> w.month_name,
         city_standardized |-> standardize_city_name(w.venue_name)])

\* exact_lookup.get(key, None): to_dict keeps the last row of a key
ExactMatch(weather, city, month) ==
    LET hits == {i \in 1..Len(weather) :
                    weather[i].city_standardized = city /\ weather[i].month_name = month}
    IN  IF hits = {} THEN NoKey
        ELSE weather[CHOOSE i \in hits : \A j \in hits : j <= i].weather_key

CharSet(s) == {Ch(s, i) : i \in 1..Len(s)}

\* a slip: the score without the identity and substring rules
SimilarityScoreNoSubstring(city, weather_city) ==
    IF CharSet(city) # {} /\ CharSet(weather_city) # {}
    THEN Rat(Cardinality(CharSet(city) \cap CharSet(weather_city)) * 80,
             Cardinality(CharSet(city) \cup CharSet(weather_city)))
    ELSE Rat(0, 1)

\* the similarity score as a fraction
SimilarityScore(city, weather_city) ==
    IF city = weather_city THEN Rat(100, 1)
    ELSE IF Contains(weather_city, city) \/ Contains(city, weather_city) THEN Rat(90, 1)
    ELSE IF CharSet(city) # {} /\ CharSet(weather_city) # {}
         THEN Rat(Cardinality(CharSet(city) \cap CharSet(weather_city)) * 80,
                  Cardinality(CharSet(city) \cup CharSet(weather_city)))
         ELSE Rat(0, 1)

RatLess(a, b) == a.num * b.den < b.num * a.den

SimilarityThreshold == 60

\* the loop over the weather cities of the month: best_match, None (NoKey) when no city
\* reaches the threshold
BestMatch(weather, city, month) ==
    LET month_weather == FilterRows(weather, LAMBDA w : w.month_name = month)
        cities == DropDuplicates(month_weather, LAMBDA w : w.city_standardized)
        RECURSIVE Loop(_, _, _)
        Loop(k, best_match, best_score) ==
            IF k > Len(cities) THEN best_match
            ELSE LET score == SimilarityScore(city, cities[k].city_standardized)
                 IN  IF RatLess(best_score, score) /\ ~RatBelow(score, SimilarityThreshold)
                     THEN Loop(k + 1, cities[k].weather_key, score)
                     ELSE Loop(k + 1, best_match, best_score)
    IN  Loop(1, NoKey, Rat(0, 1))

DefaultWeatherKey == 1

DefaultVenueKey == 1

\* similarity_lookup.get(key, 1): the lookup holds every unmatched (city, month) pair
SimilarityLookupGet(weather, keys, key) ==
    IF key \in keys THEN BestMatch(weather, key[1], key[2]) ELSE DefaultWeatherKey

\* the weather_key column
MatchWeather(df, weather) ==
    LET exact == MapRows(df, LAMBDA p :
                     [city_standardized |-> standardize_city_name(p.city_name),
                      weather_key_exact |->
                          ExactMatch(weather, standardize_city_name(p.city_name), p.month_name)]
                     @@ p)
        unique_unmatched == {<<p.city_standardized, p.month_name>> :
                                p \in {x \in Range(exact) : x.weather_key_exact = NoKey}}
    IN  MapRows(exact, LAMBDA p :
            [weather_key |->
                IF unique_unmatched # {}
                THEN IF p.weather_key_exact # NoKey THEN p.weather_key_exact
                     ELSE SimilarityLookupGet(weather, unique_unmatched,
                                              <<p.city_standardized, p.month_name>>)
                ELSE IF p.weather_key_exact = NoKey THEN DefaultWeatherKey
                     ELSE p.weather_key_exact] @@ p)

\* df.dropna(subset=['weather_key'])
DropNoWeather(df) == FilterRows(df, LAMBDA p : p.weather_key # NoKey)

\* the frame reconcile_performances appends
ReconciledPerformances(table, athletes_t, events_t, venues_t, weather_t) ==
    LET joined == JoinReferences(PerformanceRows(table), athletes_t, events_t, venues_t)
        with_weather == DropNoWeather(MatchWeather(joined, WeatherFrame(weather_t)))
        keyed == FilterRows(with_weather, LAMBDA p : p.athlete_key # NoKey /\ p.event_key # NoKey)
        filled == MapRows(keyed, LAMBDA p :
                      [src |-> p.src,
                       athlete_key |-> p.athlete_key,
                       event_key |-> p.event_key,
                       venue_key |-> IF p.venue_key = NoKey THEN DefaultVenueKey ELSE p.venue_key,
                       weather_key |-> IF p.weather_key = NoKey THEN DefaultWeatherKey
                                       ELSE p.weather_key,
                       competition_date |-> p.competition_date,
                       result_value |-> p.result_value,
                       data_source |-> p.data_source])
    IN  DropDuplicates(filled, LAMBDA p :
            <<p.athlete_key, p.event_key, p.venue_key, p.weather_key, p.competition_date>>)

\* without a row to work on the percentage of removed rows divides by zero, before the
\* table is touched
reconcile_performances ==
    /\ pc = "reconcile_performances"
    /\ IF Len(PerformanceRows(clean_wa)) = 0
       THEN pc' = "failed" /\ UNCHANGED performances
       ELSE /\ performances' =
                   AppendRows(<<>>, "performance_key",
                              ReconciledPerformances(clean_wa, athletes, events, venues,
                                                     weather_conditions))
            /\ pc' = "done"
    /\ UNCHANGED <<fnVars, dwhVars, stagingVars, cleanVars, athletes, events, venues, weather_conditions>>

(***************************************************************************)
(* The pipeline: 02_transform.py main, then 02b_load_reconciled.py main    *)
(***************************************************************************)
NextPipeline ==
    \/ clean_world_athletics_data
    \/ integrate_geographic_data
    \/ integrate_temperature_data
    \/ clear_reconciled_tables
    \/ reconcile_athletes
    \/ reconcile_events
    \/ reconcile_venues
    \/ reconcile_weather
    \/ reconcile_performances

\* the tables of 1..n rows over a set of rows
Tables(rows, n) == UNION {[1..k -> rows] : k \in 1..n}

\* what an earlier run left in the database
PreviousRawWa ==
    << [Competitor |-> "Old Runner", Event |-> "Decathlon", Mark |-> "8000",
        Venue |-> "Rome (ITA)", Date |-> "2001-06-09", Nat |-> "ITA", Sex |-> "male"] >>

PreviousRawCities ==
    << [City |-> "Rome", Country |-> "IT", Latitude |-> "41.9", Longitude |-> "12.5",
        Altitude |-> "21"] >>

PreviousRawTemperature ==
    << [City |-> "Rome", Country |-> "Italy", Month |-> 6, Year |-> 2001,
        AvgTemperature |-> Whole(23)] >>

PreviousCleanWa ==
    MapRows(CleanWorldAthletics(PreviousRawWa), LAMBDA row : [row EXCEPT !.src = 0])

PreviousCleanCities == CleanCities(PreviousRawCities)

PreviousCleanTemperature == CleanTemperature(PreviousRawTemperature)

PreviousAthletes ==
    AppendRows(<<>>, "athlete_key",
               ReconciledAthletes(CHOOSE df \in Orders(AthleteCandidates(PreviousCleanWa)) : TRUE))

PreviousEvents ==
    AppendRows(<<>>, "event_key",
               <<[event_name |-> "100 Metres", event_name_standardized |-> "100 Metres",
                  event_group |-> "Sprint", event_category |-> "Track", distance_meters |-> 100,
                  measurement_unit |-> "seconds", gender |-> "Mixed"]>>)

PreviousVenues ==
    AppendRows(<<>>, "venue_key",
               ReconciledVenues(CHOOSE df \in Orders(VenueCandidates(PreviousCleanWa)) : TRUE,
                                PreviousCleanCities))

PreviousWeather ==
    AppendRows(<<>>, "weather_key",
               ActualWeather(CHOOSE df \in Orders(WeatherCandidates(PreviousCleanTemperature)) : TRUE))

PreviousPerformances ==
    AppendRows(<<>>, "performance_key",
               <<[src |-> 0, athlete_key |-> 1, event_key |-> 1, venue_key |-> 1,
                  weather_key |-> 1, competition_date |-> "2001-06-09",
                  result_value |-> Dec(1012, 2), data_source |-> "World_Athletics"]>>)

\* before a run the database is empty or holds the tables of an earlier run
FreshOrPrevious ==
    \/ /\ clean_wa = <<>> /\ clean_cities = <<>> /\ clean_temperature = <<>>
       /\ athletes = <<>> /\ events = <<>> /\ venues = <<>>
       /\ weather_conditions = <<>> /\ performances = <<>>
    \/ /\ clean_wa = PreviousCleanWa /\ clean_cities = PreviousCleanCities
       /\ clean_temperature = PreviousCleanTemperature
       /\ athletes = PreviousAthletes /\ events = PreviousEvents /\ venues = PreviousVenues
       /\ weather_conditions = PreviousWeather /\ performances = PreviousPerformances

PipelineStart == pc = "clean_world_athletics_data" /\ arg = "" /\ ret = Unset /\ EmptyDwh

\* a gazetteer and a temperature file that know Berlin
BerlinCities ==
    << [City |-> "Berlin", Country |-> "DE", Latitude |-> "52.5", Longitude |-> "13.4",
        Altitude |-> "34"] >>

BerlinTemperature ==
    << [City |-> "Berlin", Country |-> "Germany", Month |-> 8, Year |-> 2009,
        AvgTemperature |-> Whole(19)] >>

(***************************************************************************)
(* Results: raw marks through the cleaning and the reconciliation          *)
(***************************************************************************)
MaxRows == 2

MarkSample ==
    {"DNF", "", "abc", "nan", "inf", "0.09", "0.1", "9.58", "50000", "50000.1", "13:53:21"}

ResultRows ==
    {[Competitor |-> "Usain Bolt", Event |-> "100 Metres", Mark |-> m,
      Venue |-> "Berlin (GER)", Date |-> d, Nat |-> "JAM", Sex |-> "male"] :
        m \in MarkSample, d \in {"2009-08-16"}}

InitResults ==
    /\ PipelineStart
    /\ raw_wa \in Tables(ResultRows, MaxRows)
    /\ raw_cities = BerlinCities
    /\ raw_temperature = BerlinTemperature
    /\ FreshOrPrevious

SpecResults == InitResults /\ [][NextPipeline]_vars

\* the raw mark is a result: it parses to a number r with 0.1 <= r <= 50000
AcceptedMark(mark) ==
    /\ mark # NULL
    /\ IsNum(parse_time_result(mark))
    /\ Leq(Dec(1, 1), parse_time_result(mark))
    /\ Leq(parse_time_result(mark), Whole(50000))

\* the row was written by an earlier run (src = 0) with a value in the window, or comes
\* from a raw row of this run whose mark is a result, and holds the parsed value
FromAcceptedMark(src, value) ==
    IF src = 0 THEN IsNum(value) /\ Leq(Dec(1, 1), value) /\ Leq(value, Whole(50000))
    ELSE /\ src \in 1..Len(raw_wa)
         /\ AcceptedMark(raw_wa[src].Mark)
         /\ value = parse_time_result(raw_wa[src].Mark)

\* C2: a row of the cleaned athletics table, and every performance made from it, comes
\* from a raw row whose mark parsed to a number r with 0.1 <= r <= 50000 and holds r; a raw
\* row with a DNF, empty, unparseable or out-of-window mark has no row in either table
C2_OnlyParsedResults ==
    /\ \A i \in 1..Len(clean_wa) :
           FromAcceptedMark(clean_wa[i].src, clean_wa[i].result_numeric)
    /\ \A i \in 1..Len(performances) :
           FromAcceptedMark(performances[i].src, performances[i].result_value)

\* a finished run in which one raw row was rejected and another became a performance
C2_Witness ==
    /\ pc = "done"
    /\ \E i, j \in 1..Len(raw_wa) :
           /\ ~AcceptedMark(raw_wa[i].Mark)
           /\ \A k \in 1..Len(clean_wa) : clean_wa[k].src # i
           /\ \E k \in 1..Len(performances) : performances[k].src = j

(***************************************************************************)
(* Athletes: name variants through the deduplication                       *)
(***************************************************************************)
NameSample == {"a bo", "A. Bo", "A Bo Jr", "C Li"}

AthleteRows ==
    {[Competitor |-> n, Event |-> "100 Metres", Mark |-> "9.58",
      Venue |-> "Berlin (GER)", Date |-> "2009-08-16", Nat |-> c, Sex |-> "male"] :
        n \in NameSample, c \in {"JAM", NULL}}

InitAthletes ==
    /\ PipelineStart
    /\ raw_wa \in Tables(AthleteRows, MaxRows)
    /\ raw_cities = BerlinCities
    /\ raw_temperature = BerlinTemperature
    /\ FreshOrPrevious

SpecAthletes == InitAthletes /\ [][NextPipeline]_vars

\* reconcile_athletes has run
AthletesReconciled ==
    pc \in {"reconcile_events", "reconcile_venues", "reconcile_weather",
            "reconcile_performances", "done", "failed"}

\* C5: after reconcile_athletes no two athlete records have names with the same normalized
\* form, and every normalized name of the staging table is the normalized name of a record
C5_OnePerNormalizedName ==
    AthletesReconciled =>
        /\ \A i, j \in 1..Len(athletes) :
               normalize_athlete_name(athletes[i].athlete_name)
                   = normalize_athlete_name(athletes[j].athlete_name) => i = j
        /\ \A k \in 1..Len(clean_wa) :
               clean_wa[k].athlete_name # NULL =>
                   \E i \in 1..Len(athletes) :
                       normalize_athlete_name(athletes[i].athlete_name)
                           = normalize_athlete_name(clean_wa[k].athlete_name)

\* two staged spellings of one normalized name were merged into one record
C5_Witness ==
    /\ AthletesReconciled
    /\ Len(athletes) = 1
    /\ \E k, l \in 1..Len(clean_wa) :
           /\ clean_wa[k].athlete_name # clean_wa[l].athlete_name
           /\ normalize_athlete_name(clean_wa[k].athlete_name)
                  = normalize_athlete_name(clean_wa[l].athlete_name)

(***************************************************************************)
(* Events: combined events through the reconciliation                      *)
(***************************************************************************)
EventSample == {"100 Metres", "Decathlon", "decathlon", "HEPTATHLON", "Men Heptathlon U20"}

EventRows ==
    {[Competitor |-> n, Event |-> e, Mark |-> "9.58",
      Venue |-> "Berlin (GER)", Date |-> "2009-08-16", Nat |-> "JAM", Sex |-> "male"] :
        n \in {"A Bo", "C Li"}, e \in EventSample}

InitEvents ==
    /\ PipelineStart
    /\ raw_wa \in Tables(EventRows, MaxRows)
    /\ raw_cities = BerlinCities
    /\ raw_temperature = BerlinTemperature
    /\ FreshOrPrevious

SpecEvents == InitEvents /\ [][NextPipeline]_vars

\* the name holds "decathlon" or "heptathlon" in some letter case
CombinedEvent(name) ==
    Contains(Upper(name), "DECATHLON") \/ Contains(Upper(name), "HEPTATHLON")

\* reconcile_events has run
EventsReconciled ==
    pc \in {"reconcile_venues", "reconcile_weather", "reconcile_performances", "done", "failed"}

\* C8: after the reconciled stage no event record has a name with "decathlon" or
\* "heptathlon" in it, in any letter case, and no performance record comes from a staged
\* row of such an event or refers to anything but a record of the event table
C8_NoCombinedEvents ==
    /\ EventsReconciled =>
           \A i \in 1..Len(events) :
               ~CombinedEvent(events[i].event_name)
               /\ ~CombinedEvent(events[i].event_name_standardized)
    /\ pc = "done" =>
           \A k \in 1..Len(performances) :
               /\ performances[k].event_key \in {events[i].event_key : i \in 1..Len(events)}
               /\ \A r \in 1..Len(clean_wa) :
                      clean_wa[r].src = performances[k].src
                          => ~CombinedEvent(clean_wa[r].event_clean)

\* a finished run that staged a combined event next to an event that gave a performance
C8_Witness ==
    /\ pc = "done"
    /\ \E r \in 1..Len(clean_wa) : CombinedEvent(clean_wa[r].event_clean)
    /\ Len(events) >= 1
    /\ Len(performances) >= 1

(***************************************************************************)
(* Venues: venue labels through the geographic matching                    *)
(***************************************************************************)
VenueSample ==
    {"Berlin (GER)", " berlin (ger)", "Berlin (FRA)", "Oslo (NOR)", "Home Field", NULL}

VenueRows ==
    {[Competitor |-> "A Bo", Event |-> "100 Metres", Mark |-> "9.58",
      Venue |-> v, Date |-> "2009-08-16", Nat |-> "JAM", Sex |-> "male"] : v \in VenueSample}

InitVenues ==
    /\ PipelineStart
    /\ raw_wa \in Tables(VenueRows, MaxRows)
    /\ raw_cities = BerlinCities
    /\ raw_temperature = BerlinTemperature
    /\ FreshOrPrevious

SpecVenues == InitVenues /\ [][NextPipeline]_vars

\* reconcile_venues has run
VenuesReconciled == pc \in {"reconcile_weather", "reconcile_performances", "done", "failed"}

\* the non-null venue labels of the staging table
StagedLabels == {clean_wa[k].venue_name : k \in 1..Len(clean_wa)} \ {NULL}

\* no city of the gazetteer has the name of the city read from the label
NoGazetteerMatch(label) ==
    \A c \in 1..Len(clean_cities) :
        Upper(Strip(clean_cities[c].city_name))
            # Upper(Strip(city_standardized_of(extract_location_from_venue(label).city)))

\* C9: after reconcile_venues every non-null venue label of the staging table has exactly
\* one venue record and there is no other record; a record whose label matched no city of
\* the gazetteer has no latitude, longitude or altitude and the lowest quality score
C9_OneVenuePerLabel ==
    VenuesReconciled =>
        /\ \A label \in StagedLabels :
               Cardinality({i \in 1..Len(venues) : venues[i].venue_name = label}) = 1
        /\ \A i \in 1..Len(venues) :
               /\ venues[i].venue_name \in StagedLabels
               /\ NoGazetteerMatch(venues[i].venue_name) =>
                      /\ venues[i].latitude = None
                      /\ venues[i].longitude = None
                      /\ venues[i].altitude = None
                      /\ venues[i].data_quality_score = 5
                      /\ \A j \in 1..Len(venues) :
                             venues[i].data_quality_score <= venues[j].data_quality_score

\* a matched and an unmatched label both have their record
C9_Witness ==
    /\ VenuesReconciled
    /\ \E i, j \in 1..Len(venues) :
           /\ NoGazetteerMatch(venues[i].venue_name)
           /\ venues[i].latitude = None
           /\ ~NoGazetteerMatch(venues[j].venue_name)
           /\ venues[j].latitude # None

(***************************************************************************)
(* Weather: performances through the weather matching                      *)
(***************************************************************************)
WeatherVenueSample == {"Berlin (GER)", "Berlino (ITA)", "Oslo (NOR)", NULL}

WeatherDateSample == {"2009-08-16", "2009-01-05"}

WeatherRows ==
    {[Competitor |-> "A Bo", Event |-> "100 Metres", Mark |-> "9.58",
      Venue |-> v, Date |-> d, Nat |-> "JAM", Sex |-> "male"] :
        v \in WeatherVenueSample, d \in WeatherDateSample}

InitWeather ==
    /\ PipelineStart
    /\ raw_wa \in Tables(WeatherRows, MaxRows)
    /\ raw_cities = BerlinCities
    /\ raw_temperature = BerlinTemperature
    /\ FreshOrPrevious

SpecWeather == InitWeather /\ [][NextPipeline]_vars

\* the city the venue table gives the staged row, and the month name of its date
CityOfRow(row) ==
    LET found == {i \in 1..Len(venues) : venues[i].venue_name_clean = StripTitle(row.venue_name)}
    IN  standardize_city_name(IF found = {} THEN NULL
                              ELSE venues[CHOOSE i \in found : TRUE].city_name)

MonthOfRow(row) == month_name_of(MonthOfDate(row.competition_date))

\* neither the exact lookup nor the similarity fallback finds a weather record for the row
NoWeatherMatch(row) ==
    /\ ExactMatch(WeatherFrame(weather_conditions), CityOfRow(row), MonthOfRow(row)) = NoKey
    /\ BestMatch(WeatherFrame(weather_conditions), CityOfRow(row), MonthOfRow(row)) = NoKey

\* the performance records of the staged row: the ones of a staged row with its athlete,
\* event, venue and date
PerformancesOf(row) ==
    {k \in 1..Len(performances) :
        \E r \in 1..Len(clean_wa) :
            /\ clean_wa[r].src = performances[k].src
            /\ clean_wa[r].athlete_name = row.athlete_name
            /\ clean_wa[r].event_clean = row.event_clean
            /\ clean_wa[r].venue_name = row.venue_name
            /\ clean_wa[r].competition_date = row.competition_date}

\* C10: after reconcile_performances a staged performance without a weather match has a
\* performance record, and its weather_key is the sentinel key 1
C10_SentinelWeatherKey ==
    pc = "done" =>
        \A r \in 1..Len(clean_wa) :
            NoWeatherMatch(clean_wa[r]) =>
                /\ PerformancesOf(clean_wa[r]) # {}
                /\ \A k \in PerformancesOf(clean_wa[r]) : performances[k].weather_key = 1

(***************************************************************************)
(* Matching: reconcile_performances' weather matcher on given frames       *)
(***************************************************************************)
\* a slip: the rows of a table come back in any order
TableScanAnyOrder(table) == Orders(Range(table))

\* SELECT ... FROM a table without ORDER BY, on a table written by one append after a
\* TRUNCATE: the rows as stored
TableScan(table) == {table}

MaxWeatherRows == 2

MatchCitySample == {"Berlin", "Ber", "Nilreb", "Oslo"}

MatchFrameRows == {[city_name |-> c, month_name |-> "August"] : c \in MatchCitySample}

MatchWeatherRows ==
    {[venue_name |-> "BERLIN", month_name |-> "August"],
     [venue_name |-> "BERLINER", month_name |-> "August"],
     [venue_name |-> "BERN", month_name |-> "August"],
     [venue_name |-> "BERLIN", month_name |-> "January"]}

\* the weather tables of 0..n rows, keyed by position
MatchWeatherTables(n) ==
    {AppendRows(<<>>, "weather_key", t) : t \in {<<>>} \cup Tables(MatchWeatherRows, n)}

InitMatch ==
    /\ pc = "match"
    /\ arg \in {[df |-> d, weather |-> w] :
                    d \in Tables(MatchFrameRows, MaxRows), w \in MatchWeatherTables(MaxWeatherRows)}
    /\ ret = <<>>
    /\ EmptyDb

\* the weather_key column the matcher gives the frame, for a scan of the weather table
WeatherKeys(df, weather) ==
    MapRows(MatchWeather(df, WeatherFrame(weather)), LAMBDA p : p.weather_key)

RunMatcher ==
    /\ pc = "match"
    /\ \E weather \in TableScan(arg.weather) : ret' = <<WeatherKeys(arg.df, weather)>>
    /\ pc' = "matched"
    /\ UNCHANGED <<arg, dbVars>>

RunMatcherAgain ==
    /\ pc = "matched"
    /\ \E weather \in TableScan(arg.weather) : ret' = Append(ret, WeatherKeys(arg.df, weather))
    /\ pc' = "matched twice"
    /\ UNCHANGED <<arg, dbVars>>

NextMatch == RunMatcher \/ RunMatcherAgain

SpecMatch == InitMatch /\ [][NextMatch]_vars

\* the standardized city of row i of the frame, its month, and the weather frame
MatchCity(i) == standardize_city_name(arg.df[i].city_name)

MatchMonth(i) == arg.df[i].month_name

MatchFrame == WeatherFrame(arg.weather)

\* the weather cities of a month
MonthCities(month) ==
    {MatchFrame[k].city_standardized :
        k \in {j \in 1..Len(MatchFrame) : MatchFrame[j].month_name = month}}

\* row i of the frame has no weather row of its city and month
NoExactMatch(i) ==
    \A k \in 1..Len(MatchFrame) :
        ~(MatchFrame[k].city_standardized = MatchCity(i) /\ MatchFrame[k].month_name = MatchMonth(i))

\* the score of the rule as numerator and denominator: 100 for identical names, 90 when
\* one holds the other, else 80 * |common characters| / |all characters|
RuleScore(a, b) ==
    IF a = b THEN <<100, 1>>
    ELSE IF \E i \in 1..(Len(a) + 1) : MatchAt(a, i, b) THEN <<90, 1>>
    ELSE IF \E i \in 1..(Len(b) + 1) : MatchAt(b, i, a) THEN <<90, 1>>
    ELSE <<80 * Cardinality({c \in CharSet(a) : c \in CharSet(b)}),
           Cardinality(CharSet(a) \cup CharSet(b))>>

RuleReaches(a, b) == RuleScore(a, b)[1] >= 60 * RuleScore(a, b)[2]

RuleAtMost(a, b, c) == RuleScore(a, b)[1] * RuleScore(a, c)[2] <= RuleScore(a, c)[1] * RuleScore(a, b)[2]

\* C12: the similarity fallback scores a pair 100, 90 or 80 * |common| / |union|; a row
\* without an exact match gets a weather record exactly when some weather city of its
\* month scores 60 or more, and the record is one of a city of that month with the
\* highest score
C12_SimilarityFallback ==
    pc # "match" =>
        \A i \in 1..Len(arg.df) :
            NoExactMatch(i) =>
                /\ \A c \in MonthCities(MatchMonth(i)) :
                       SimilarityScore(MatchCity(i), c)
                           = Rat(RuleScore(MatchCity(i), c)[1], RuleScore(MatchCity(i), c)[2])
                /\ ret[1][i] # NoKey
                       <=> \E c \in MonthCities(MatchMonth(i)) : RuleReaches(MatchCity(i), c)
                /\ ret[1][i] # NoKey =>
                       \E k \in 1..Len(MatchFrame) :
                           /\ MatchFrame[k].weather_key = ret[1][i]
                           /\ MatchFrame[k].month_name = MatchMonth(i)
                           /\ \A c \in MonthCities(MatchMonth(i)) :
                                  RuleAtMost(MatchCity(i), c, MatchFrame[k].city_standardized)

\* a row matched by a name that holds it while a lower-scoring city of the month is there
C12_Witness ==
    /\ pc = "matched"
    /\ \E i \in 1..Len(arg.df) :
           /\ NoExactMatch(i)
           /\ ret[1][i] # NoKey
           /\ \E c \in MonthCities(MatchMonth(i)) : RuleScore(MatchCity(i), c) = <<90, 1>>
           /\ \E c \in MonthCities(MatchMonth(i)) : ~RuleReaches(MatchCity(i), c)

EstimateVenueSample == {"Eugene (USA)", "Doha (QAT)", "Berlin (GER)", "Oslo (NOR)"}

EstimateRows ==
    {[Competitor |-> "A Bo", Event |-> "100 Metres", Mark |-> "9.58",
      Venue |-> v, Date |-> "2009-08-16", Nat |-> "JAM", Sex |-> "male"] :
        v \in EstimateVenueSample}

InitEstimates ==
    /\ PipelineStart
    /\ raw_wa \in Tables(EstimateRows, MaxRows)
    /\ raw_cities = BerlinCities
    /\ raw_temperature = BerlinTemperature
    /\ FreshOrPrevious

SpecEstimates == InitEstimates /\ [][NextPipeline]_vars

\* the cities of the known set, as written in the query and in city_climate_estimates
KnownCities == {needed_city_patterns[i][2] : i \in 1..Len(needed_city_patterns)}

\* a staged venue label names the city (staged labels are in upper case)
StagedVenueNeeds(city) ==
    \E r \in 1..Len(clean_wa) :
        \E i \in 1..Len(needed_city_patterns) :
            /\ needed_city_patterns[i][2] = city
            /\ clean_wa[r].venue_name # NULL
            /\ Contains(clean_wa[r].venue_name, Upper(needed_city_patterns[i][1]))

\* the temperature source has a record of the city
HasActualData(city) ==
    \E t \in 1..Len(clean_temperature) :
        clean_temperature[t].City # NULL
            /\ standardize_weather_city_name(clean_temperature[t].City) = city

EstimateRecords(city) ==
    {k \in 1..Len(weather_conditions) :
        weather_conditions[k].venue_name = city /\ ~weather_conditions[k].has_actual_data}

\* C14: after reconcile_weather a known athletics city that a staged venue needs and the
\* temperature source lacks has exactly twelve estimate records, one per month, and a
\* city with actual data has none
C14_TwelveEstimates ==
    pc \in {"reconcile_performances", "done"} =>
        \A city \in KnownCities :
            /\ (StagedVenueNeeds(city) /\ ~HasActualData(city)) =>
                   /\ Cardinality(EstimateRecords(city)) = 12
                   /\ \A m \in 1..12 :
                          \E k \in EstimateRecords(city) :
                              weather_conditions[k].month_name = month_names[m]
            /\ HasActualData(city) => EstimateRecords(city) = {}

(***************************************************************************)
(* Temperature: temperature files through the cleaning and reconcile_weather*)
(***************************************************************************)
TemperatureSample ==
    {[City |-> "Berlin", Country |-> "Germany", Month |-> 8, Year |-> 2009,
      AvgTemperature |-> Whole(19)],
     [City |-> "Berlin", Country |-> "Germany", Month |-> 8, Year |-> 2010,
      AvgTemperature |-> Whole(21)],
     [City |-> "Berlin", Country |-> "Germany", Month |-> 1, Year |-> 2009,
      AvgTemperature |-> Whole(0)],
     [City |-> "Berlin", Country |-> "United States", Month |-> 8, Year |-> 2009,
      AvgTemperature |-> Whole(25)],
     [City |-> "Roma", Country |-> "Italy", Month |-> 8, Year |-> 2009,
      AvgTemperature |-> Whole(26)],
     [City |-> "Rome", Country |-> "Italy", Month |-> 8, Year |-> 2009,
      AvgTemperature |-> Whole(26)]}

InitTemperature ==
    /\ PipelineStart
    /\ raw_wa = << [Competitor |-> "A Bo", Event |-> "100 Metres", Mark |-> "9.58",
                    Venue |-> "Berlin (GER)", Date |-> "2009-08-16", Nat |-> "JAM",
                    Sex |-> "male"] >>
    /\ raw_cities = BerlinCities
    /\ raw_temperature \in Tables(TemperatureSample, MaxRows)
    /\ FreshOrPrevious

SpecTemperature == InitTemperature /\ [][NextPipeline]_vars

\* C15: after reconcile_weather no two weather records share the standardized city, the
\* month and the data source
C15_OnePerCityMonthSource ==
    pc \in {"reconcile_performances", "done"} =>
        \A k, l \in 1..Len(weather_conditions) :
            (/\ weather_conditions[k].venue_name = weather_conditions[l].venue_name
             /\ weather_conditions[k].month_name = weather_conditions[l].month_name
             /\ weather_conditions[k].weather_source = weather_conditions[l].weather_source)
                => k = l

(***************************************************************************)
(* Aliases: one city name through the venue side and the weather side      *)
(***************************************************************************)
MaxCityPieces == 2

CityPieces == {"Roma", "Rome", "Wien", "Vienna", "Praha", "Doha", "St", " ", "-", "."}

\* the city names as the venue labels and the temperature file spell them
CityNames == {c \in PieceStrings(CityPieces, MaxCityPieces) : Strip(c) = c}

\* the key of a performance: city_standardized of reconcile_venues, stored as city_name
\* in title case (no gazetteer row renames it), then standardize_city_name
PerformanceSideCity(city) == standardize_city_name(Title(city_standardized_of(city)))

\* the key of a weather record: standardize_weather_city_name of reconcile_weather,
\* stored as venue_name, then standardize_city_name
WeatherSideCity(city) == standardize_city_name(standardize_weather_city_name(city))

InitAlias == pc = "standardize" /\ arg \in CityNames /\ ret = Unset /\ EmptyDb

StandardizeBothSides ==
    /\ pc = "standardize"
    /\ ret' = [performance |-> PerformanceSideCity(arg), weather |-> WeatherSideCity(arg)]
    /\ pc' = "standardized"
    /\ UNCHANGED <<arg, dbVars>>

NextAlias == StandardizeBothSides

SpecAlias == InitAlias /\ [][NextAlias]_vars

\* C16: a city name gets the same standardized name on the venue/performance side and on
\* the weather side
C16_SameAliases == pc = "standardized" => ret.performance = ret.weather

(***************************************************************************)
(* 04_load_facts.py: is_realistic_performance                              *)
(***************************************************************************)
\* REALISTIC_PERFORMANCE_THRESHOLDS['M'] in the order of the dict: event, kind of bound,
\* max, min
MenThresholds ==
    << <<"100 Metres", "time", Dec(110, 1), Dec(957, 2)>>,
       <<"200 Metres", "time", Dec(220, 1), Dec(1918, 2)>>,
       <<"400 Metres", "time", Dec(500, 1), Dec(4302, 2)>>,
       <<"300 Metres", "time", Dec(350, 1), Dec(3080, 2)>>,
       <<"600 Metres", "time", Dec(800, 1), Dec(6713, 2)>>,
       <<"1000 Metres", "time", Dec(1700, 1), Dec(13195, 2)>>,
       <<"2000 Metres", "time", Dec(3600, 1), Dec(28478, 2)>>,
       <<"3000 Metres", "time", Dec(5500, 1), Dec(42275, 2)>>,
       <<"Two Miles", "time", Dec(5500, 1), Dec(47266, 2)>>,
       <<"3000 Metres Steeplechase", "time", Dec(6000, 1), Dec(48646, 2)>>,
       <<"5 Kilometres", "time", Dec(9500, 1), Dec(7560, 1)>>,
       <<"10 Kilometres", "time", Dec(19000, 1), Dec(15760, 1)>>,
       <<"15 Kilometres", "time", Dec(30000, 1), Dec(25250, 1)>>,
       <<"20 Kilometres", "time", Dec(40000, 1), Dec(33770, 1)>>,
       <<"Half Marathon", "time", Dec(45000, 1), Dec(36680, 1)>>,
       <<"10 Miles Road", "time", Dec(32000, 1), Dec(27070, 1)>>,
       <<"3000 Metres Race Walk", "time", Dec(9000, 1), Dec(6650, 1)>>,
       <<"5000 Metres Race Walk", "time", Dec(14000, 1), Dec(11340, 1)>>,
       <<"10000 Metres Race Walk", "time", Dec(27000, 1), Dec(23160, 1)>>,
       <<"20000 Metres Race Walk", "time", Dec(54000, 1), Dec(46660, 1)>>,
       <<"5 Kilometres Race Walk", "time", Dec(14000, 1), Dec(11340, 1)>>,
       <<"10 Kilometres Race Walk", "time", Dec(27000, 1), Dec(23160, 1)>>,
       <<"20 Kilometres Race Walk", "time", Dec(54000, 1), Dec(46660, 1)>>,
       <<"30 Kilometres Race Walk", "time", Dec(82000, 1), Dec(71990, 1)>>,
       <<"35 Kilometres Race Walk", "time", Dec(96000, 1), Dec(83990, 1)>>,
       <<"50 Kilometres Race Walk", "time", Dec(140000, 1), Dec(123960, 1)>>,
       <<"800 Metres", "time", Dec(1300, 1), Dec(10090, 2)>>,
       <<"1500 Metres", "time", Dec(2600, 1), Dec(20599, 2)>>,
       <<"One Mile", "time", Dec(2800, 1), Dec(22312, 2)>>,
       <<"5000 Metres", "time", Dec(9000, 1), Dec(75734, 2)>>,
       <<"10000 Metres", "time", Dec(18000, 1), Dec(157752, 2)>>,
       <<"Marathon", "time", Dec(90000, 1), Dec(72980, 1)>>,
       <<"110 Metres Hurdles", "time", Dec(150, 1), Dec(1279, 2)>>,
       <<"400 Metres Hurdles", "time", Dec(550, 1), Dec(4593, 2)>>,
       <<"High Jump", "distance", Dec(246, 2), Dec(15, 1)>>,
       <<"Long Jump", "distance", Dec(896, 2), Dec(50, 1)>>,
       <<"Triple Jump", "distance", Dec(1830, 2), Dec(100, 1)>>,
       <<"Pole Vault", "distance", Dec(624, 2), Dec(30, 1)>>,
       <<"Shot Put", "distance", Dec(2338, 2), Dec(80, 1)>>,
       <<"Discus Throw", "distance", Dec(7409, 2), Dec(300, 1)>>,
       <<"Hammer Throw", "distance", Dec(8675, 2), Dec(400, 1)>>,
       <<"Javelin Throw", "distance", Dec(9849, 2), Dec(400, 1)>> >>

\* REALISTIC_PERFORMANCE_THRESHOLDS['F']
WomenThresholds ==
    << <<"100 Metres", "time", Dec(120, 1), Dec(1048, 2)>>,
       <<"200 Metres", "time", Dec(240, 1), Dec(2133, 2)>>,
       <<"400 Metres", "time", Dec(550, 1), Dec(4759, 2)>>,
       <<"300 Metres", "time", Dec(380, 1), Dec(3413, 2)>>,
       <<"600 Metres", "time", Dec(900, 1), Dec(7324, 2)>>,
       <<"1000 Metres", "time", Dec(1850, 1), Dec(14933, 2)>>,
       <<"2000 Metres", "time", Dec(4000, 1), Dec(31857, 2)>>,
       <<"3000 Metres", "time", Dec(6200, 1), Dec(48610, 2)>>,
       <<"One Mile", "time", Dec(3000, 1), Dec(25255, 2)>>,
       <<"Two Miles", "time", Dec(6200, 1), Dec(54032, 2)>>,
       <<"3000 Metres Steeplechase", "time", Dec(7000, 1), Dec(55877, 2)>>,
       <<"5 Kilometres", "time", Dec(10500, 1), Dec(8500, 1)>>,
       <<"10 Kilometres", "time", Dec(21500, 1), Dec(17710, 1)>>,
       <<"15 Kilometres", "time", Dec(33000, 1), Dec(28120, 1)>>,
       <<"20 Kilometres", "time", Dec(45000, 1), Dec(38990, 1)>>,
       <<"Half Marathon", "time", Dec(51000, 1), Dec(40780, 1)>>,
       <<"10 Miles Road", "time", Dec(36000, 1), Dec(30490, 1)>>,
       <<"3000 Metres Race Walk", "time", Dec(10000, 1), Dec(7490, 1)>>,
       <<"5000 Metres Race Walk", "time", Dec(16000, 1), Dec(12880, 1)>>,
       <<"10000 Metres Race Walk", "time", Dec(32000, 1), Dec(26430, 1)>>,
       <<"20000 Metres Race Walk", "time", Dec(65000, 1), Dec(54660, 1)>>,
       <<"5 Kilometres Race Walk", "time", Dec(16000, 1), Dec(12880, 1)>>,
       <<"10 Kilometres Race Walk", "time", Dec(32000, 1), Dec(26430, 1)>>,
       <<"20 Kilometres Race Walk", "time", Dec(65000, 1), Dec(54660, 1)>>,
       <<"35 Kilometres Race Walk", "time", Dec(115000, 1), Dec(101990, 1)>>,
       <<"50 Kilometres Race Walk", "time", Dec(165000, 1), Dec(144130, 1)>>,
       <<"800 Metres", "time", Dec(1400, 1), Dec(11327, 2)>>,
       <<"1500 Metres", "time", Dec(2800, 1), Dec(23006, 2)>>,
       <<"5000 Metres", "time", Dec(10000, 1), Dec(85114, 2)>>,
       <<"10000 Metres", "time", Dec(21000, 1), Dec(177177, 2)>>,
       <<"Marathon", "time", Dec(108000, 1), Dec(8168, 0)>>,
       <<"100 Metres Hurdles", "time", Dec(150, 1), Dec(1219, 2)>>,
       <<"400 Metres Hurdles", "time", Dec(600, 1), Dec(5067, 2)>>,
       <<"High Jump", "distance", Dec(210, 2), Dec(13, 1)>>,
       <<"Long Jump", "distance", Dec(753, 2), Dec(45, 1)>>,
       <<"Triple Jump", "distance", Dec(1575, 2), Dec(90, 1)>>,
       <<"Pole Vault", "distance", Dec(507, 2), Dec(25, 1)>>,
       <<"Shot Put", "distance", Dec(2264, 2), Dec(70, 1)>>,
       <<"Discus Throw", "distance", Dec(7681, 2), Dec(250, 1)>>,
       <<"Hammer Throw", "distance", Dec(8299, 2), Dec(350, 1)>>,
       <<"Javelin Throw", "distance", Dec(7229, 2), Dec(250, 1)>> >>

\* str(v) of a value of a text column: NaN prints as nan
Str(v) == IF v = NULL THEN "nan" ELSE v

\* 'M' if str(gender).upper() in ['M', 'MALE', 'MEN'] else 'F'
gender_key_of(gender) == IF Upper(Str(gender)) \in {"M", "MALE", "MEN"} THEN "M" ELSE "F"

REALISTIC_PERFORMANCE_THRESHOLDS(gender_key) ==
    IF gender_key = "M" THEN MenThresholds ELSE WomenThresholds

\* the entry of the exact event name, else the first entry whose name holds the event
\* name or is held by it, both in lower case; 0 when there is none
FindEntry(table, event_str) ==
    LET exact == {i \in 1..Len(table) : table[i][1] = event_str}
        partial == {i \in 1..Len(table) :
                       \/ Contains(Lower(event_str), Lower(table[i][1]))
                       \/ Contains(Lower(table[i][1]), Lower(event_str))}
    IN  IF exact # {} THEN CHOOSE i \in exact : TRUE
        ELSE IF partial # {} THEN CHOOSE i \in partial : \A j \in partial : i <= j
        ELSE 0

\* a > b for numbers
Gt(a, b) == Leq(b, a) /\ ~Leq(a, b)

is_realistic_performance(result_value, event_name, measurement_unit, gender) ==
    IF IsNA(result_value) \/ event_name = NULL \/ Leq(result_value, Whole(0)) THEN FALSE
    ELSE LET gender_thresholds == REALISTIC_PERFORMANCE_THRESHOLDS(gender_key_of(gender))
             found == FindEntry(gender_thresholds, Strip(event_name))
             event_thresholds == gender_thresholds[found]
             wanted == IF measurement_unit = "seconds" THEN "time" ELSE "distance"
         IN  IF found = 0 THEN TRUE
             ELSE IF event_thresholds[2] # wanted THEN TRUE
             ELSE IF event_thresholds[3] # Whole(0) /\ Gt(result_value, event_thresholds[3])
             THEN FALSE
             ELSE IF event_thresholds[4] # Whole(0) /\ Gt(event_thresholds[4], result_value)
             THEN FALSE
             ELSE TRUE

RealisticResultSample == {Whole(0), Dec(958, 2), Dec(105, 1), Dec(375, 1), Whole(2), Whole(300)}

RealisticEventSample ==
    {"100 Metres", "4x100 Metres Relay", "60 Metres", "High Jump", "100 Metres Hurdles",
     "Medley Relay"}

\* the genders reconcile_athletes writes ('M', 'F', 'U') and other spellings
RealisticGenderSample == {"M", "F", "male", "U", "Unknown", NULL}

InitRealistic ==
    /\ pc = "filter"
    /\ arg \in [result_value : RealisticResultSample, event_name : RealisticEventSample,
                 measurement_unit : {"seconds", "meters"}, gender : RealisticGenderSample]
    /\ ret = Unset
    /\ EmptyDb

FilterPerformance ==
    /\ pc = "filter"
    /\ ret' = is_realistic_performance(arg.result_value, arg.event_name, arg.measurement_unit,
                                       arg.gender)
    /\ pc' = "filtered"
    /\ UNCHANGED <<arg, dbVars>>

NextRealistic == FilterPerformance

SpecRealistic == InitRealistic /\ [][NextRealistic]_vars

\* the gender a value names: M, F or none
NamedGender(gender) ==
    IF Upper(Str(gender)) \in {"M", "MALE", "MEN"} THEN "M"
    ELSE IF Upper(Str(gender)) \in {"F", "FEMALE", "WOMEN"} THEN "F"
    ELSE "none"

\* the entries of the threshold table for the event and gender themselves
OwnBounds(event_name, gender) ==
    IF NamedGender(gender) = "none" THEN {}
    ELSE LET table == REALISTIC_PERFORMANCE_THRESHOLDS(NamedGender(gender))
         IN  {<<table[i][4], table[i][3]>> : i \in {j \in 1..Len(table) : table[j][1] = event_name}}

\* C17: a positive result is rejected only when its own event and gender have bounds and
\* the result lies outside them; without bounds for the event or the gender it passes
C17_RejectedOnlyByOwnBounds ==
    (pc = "filtered" /\ Gt(arg.result_value, Whole(0))) =>
        /\ OwnBounds(arg.event_name, arg.gender) = {} => ret = TRUE
        /\ ret = FALSE =>
               \E b \in OwnBounds(arg.event_name, arg.gender) :
                   Gt(b[1], arg.result_value) \/ Gt(arg.result_value, b[2])

(***************************************************************************)
(* 04_load_facts.py: calculate_performance_score_enhanced,                 *)
(* calculate_performance_score                                             *)
(***************************************************************************)
\* WORLD_ATHLETICS_COEFFICIENTS['M'] in the order of the dict: event, A, B, C
MenCoefficients ==
    << <<"100 Metres", Dec(2867, 2), Dec(180, 1), Dec(181, 2)>>,
       <<"200 Metres", Dec(6674, 3), Dec(380, 1), Dec(181, 2)>>,
       <<"400 Metres", Dec(1745, 3), Dec(820, 1), Dec(181, 2)>>,
       <<"800 Metres", Dec(1444, 4), Dec(2540, 1), Dec(181, 2)>>,
       <<"1500 Metres", Dec(504, 4), Dec(4800, 1), Dec(181, 2)>>,
       <<"5000 Metres", Dec(283, 5), Dec(21000, 1), Dec(181, 2)>>,
       <<"10000 Metres", Dec(8436, 7), Dec(42000, 1), Dec(181, 2)>>,
       <<"110 Metres Hurdles", Dec(6544, 3), Dec(285, 1), Dec(192, 2)>>,
       <<"400 Metres Hurdles", Dec(8722, 4), Dec(955, 1), Dec(188, 2)>>,
       <<"3000 Metres Steeplechase", Dec(4711, 6), Dec(12540, 1), Dec(188, 2)>>,
       <<"High Jump", Dec(6251, 1), Dec(75, 2), Dec(14, 1)>>,
       <<"Long Jump", Dec(7942, 2), Dec(14, 1), Dec(14, 1)>>,
       <<"Triple Jump", Dec(2737, 2), Dec(25, 1), Dec(14, 1)>>,
       <<"Pole Vault", Dec(1422, 1), Dec(10, 1), Dec(135, 2)>>,
       <<"Shot Put", Dec(518, 1), Dec(15, 1), Dec(105, 2)>>,
       <<"Discus Throw", Dec(1228, 2), Dec(40, 1), Dec(11, 1)>>,
       <<"Hammer Throw", Dec(1317, 2), Dec(70, 1), Dec(105, 2)>>,
       <<"Javelin Throw", Dec(758, 2), Dec(70, 1), Dec(115, 2)>>,
       <<"300 Metres", Dec(2139, 3), Dec(650, 1), Dec(181, 2)>>,
       <<"600 Metres", Dec(2414, 4), Dec(1850, 1), Dec(181, 2)>>,
       <<"1000 Metres", Dec(601, 4), Dec(3750, 1), Dec(181, 2)>>,
       <<"2000 Metres", Dec(2174, 5), Dec(7200, 1), Dec(181, 2)>>,
       <<"3000 Metres", Dec(7944, 6), Dec(12000, 1), Dec(181, 2)>>,
       <<"One Mile", Dec(4907, 5), Dec(5000, 1), Dec(181, 2)>>,
       <<"Two Miles", Dec(13154, 6), Dec(10500, 1), Dec(181, 2)>>,
       <<"5 Kilometres", Dec(2768, 6), Dec(21000, 1), Dec(181, 2)>>,
       <<"10 Kilometres", Dec(8375, 7), Dec(42000, 1), Dec(181, 2)>>,
       <<"15 Kilometres", Dec(407, 6), Dec(63000, 1), Dec(181, 2)>>,
       <<"20 Kilometres", Dec(2434, 7), Dec(84000, 1), Dec(181, 2)>>,
       <<"Half Marathon", Dec(143, 5), Dec(54000, 1), Dec(181, 2)>>,
       <<"Marathon", Dec(4865, 7), Dec(108000, 1), Dec(181, 2)>>,
       <<"10 Miles Road", Dec(3, 4), Dec(72000, 1), Dec(181, 2)>>,
       <<"3000 Metres Race Walk", Dec(3503, 6), Dec(18000, 1), Dec(181, 2)>>,
       <<"5000 Metres Race Walk", Dec(1396, 6), Dec(30000, 1), Dec(181, 2)>>,
       <<"10000 Metres Race Walk", Dec(4205, 7), Dec(60000, 1), Dec(181, 2)>>,
       <<"20000 Metres Race Walk", Dec(1251, 7), Dec(120000, 1), Dec(181, 2)>>,
       <<"5 Kilometres Race Walk", Dec(139, 5), Dec(30000, 1), Dec(181, 2)>>,
       <<"10 Kilometres Race Walk", Dec(4214, 7), Dec(60000, 1), Dec(181, 2)>>,
       <<"20 Kilometres Race Walk", Dec(1255, 7), Dec(120000, 1), Dec(181, 2)>>,
       <<"30 Kilometres Race Walk", Dec(634, 7), Dec(180000, 1), Dec(181, 2)>>,
       <<"35 Kilometres Race Walk", Dec(4824, 8), Dec(210000, 1), Dec(181, 2)>>,
       <<"50 Kilometres Race Walk", Dec(2723, 8), Dec(300000, 1), Dec(181, 2)>> >>

\* WORLD_ATHLETICS_COEFFICIENTS['F']; a key written twice keeps its first place and its
\* last value
WomenCoefficients ==
    << <<"100 Metres", Dec(186, 1), Dec(210, 1), Dec(181, 2)>>,
       <<"200 Metres", Dec(5217, 3), Dec(425, 1), Dec(181, 2)>>,
       <<"400 Metres", Dec(1377, 3), Dec(917, 1), Dec(181, 2)>>,
       <<"800 Metres", Dec(115936, 6), Dec(2850, 1), Dec(181, 2)>>,
       <<"1500 Metres", Dec(4106, 5), Dec(5350, 1), Dec(181, 2)>>,
       <<"5000 Metres", Dec(213, 5), Dec(24000, 1), Dec(181, 2)>>,
       <<"10000 Metres", Dec(64, 5), Dec(48000, 1), Dec(181, 2)>>,
       <<"100 Metres Hurdles", Dec(931, 2), Dec(267, 1), Dec(1835, 3)>>,
       <<"400 Metres Hurdles", Dec(671, 3), Dec(1070, 1), Dec(188, 2)>>,
       <<"3000 Metres Steeplechase", Dec(3303, 6), Dec(14650, 1), Dec(188, 2)>>,
       <<"300 Metres", Dec(1789, 3), Dec(720, 1), Dec(181, 2)>>,
       <<"600 Metres", Dec(1903, 4), Dec(2100, 1), Dec(181, 2)>>,
       <<"1000 Metres", Dec(4778, 5), Dec(4250, 1), Dec(181, 2)>>,
       <<"2000 Metres", Dec(1626, 5), Dec(8200, 1), Dec(181, 2)>>,
       <<"3000 Metres", Dec(5886, 6), Dec(13800, 1), Dec(181, 2)>>,
       <<"One Mile", Dec(3708, 5), Dec(5700, 1), Dec(181, 2)>>,
       <<"Two Miles", Dec(972, 5), Dec(12000, 1), Dec(181, 2)>>,
       <<"5 Kilometres", Dec(2119, 6), Dec(24000, 1), Dec(181, 2)>>,
       <<"10 Kilometres", Dec(641, 6), Dec(48000, 1), Dec(181, 2)>>,
       <<"15 Kilometres", Dec(3061, 7), Dec(72000, 1), Dec(181, 2)>>,
       <<"20 Kilometres", Dec(1841, 7), Dec(96000, 1), Dec(181, 2)>>,
       <<"Half Marathon", Dec(8882, 7), Dec(63000, 1), Dec(181, 2)>>,
       <<"Marathon", Dec(29305, 8), Dec(126000, 1), Dec(181, 2)>>,
       <<"10 Miles Road", Dec(2112, 7), Dec(84000, 1), Dec(181, 2)>>,
       <<"3000 Metres Race Walk", Dec(24365, 7), Dec(21000, 1), Dec(181, 2)>>,
       <<"5000 Metres Race Walk", Dec(93, 5), Dec(36000, 1), Dec(181, 2)>>,
       <<"10000 Metres Race Walk", Dec(2728, 7), Dec(72000, 1), Dec(181, 2)>>,
       <<"20000 Metres Race Walk", Dec(8003, 8), Dec(144000, 1), Dec(181, 2)>>,
       <<"5 Kilometres Race Walk", Dec(934, 6), Dec(36000, 1), Dec(181, 2)>>,
       <<"10 Kilometres Race Walk", Dec(2733, 7), Dec(72000, 1), Dec(181, 2)>>,
       <<"20 Kilometres Race Walk", Dec(808, 7), Dec(144000, 1), Dec(181, 2)>>,
       <<"35 Kilometres Race Walk", Dec(3187, 8), Dec(252000, 1), Dec(181, 2)>>,
       <<"50 Kilometres Race Walk", Dec(1765, 8), Dec(360000, 1), Dec(181, 2)>>,
       <<"High Jump", Dec(8690, 1), Dec(75, 2), Dec(14, 1)>>,
       <<"Long Jump", Dec(10553, 2), Dec(14, 1), Dec(14, 1)>>,
       <<"Triple Jump", Dec(3486, 2), Dec(25, 1), Dec(14, 1)>>,
       <<"Pole Vault", Dec(1946, 1), Dec(10, 1), Dec(135, 2)>>,
       <<"Shot Put", Dec(5575, 2), Dec(15, 1), Dec(105, 2)>>,
       <<"Discus Throw", Dec(1218, 2), Dec(30, 1), Dec(11, 1)>>,
       <<"Hammer Throw", Dec(1326, 2), Dec(40, 1), Dec(105, 2)>>,
       <<"Javelin Throw", Dec(9983, 3), Dec(30, 1), Dec(115, 2)>> >>

WORLD_ATHLETICS_COEFFICIENTS(gender) ==
    IF gender = "M" THEN MenCoefficients ELSE WomenCoefficients

\* floats of the score formula are kept to four significant digits
RECURSIVE NumDigits(_)
NumDigits(n) == IF n < 10 THEN 1 ELSE 1 + NumDigits(n \div 10)

RECURSIVE StripZeros(_, _)
\* the significand and the number of fraction digits (negative for trailing zeros)
StripZeros(m, e) == IF m # 0 /\ m % 10 = 0 THEN StripZeros(m \div 10, e - 1) ELSE <<m, e>>

RECURSIVE Round4(_, _)
Round4(m, e) ==
    IF m >= 10000 THEN Round4((m + 5) \div 10, e - 1)
    ELSE IF e < 0 THEN Dec(m * Pow10(0 - e), 0)
    ELSE Dec(m, e)

\* a * b for numbers a, b >= 0
FMul(a, b) ==
    LET sa == StripZeros(a.m, a.e)
        sb == StripZeros(b.m, b.e)
    IN  Round4(sa[1] * sb[1], sa[2] + sb[2])

\* a <= b for numbers a, b >= 0 of any magnitude
FLeq(a, b) ==
    IF a.m = 0 THEN TRUE
    ELSE IF b.m = 0 THEN FALSE
    ELSE IF NumDigits(a.m) - a.e < NumDigits(b.m) - b.e THEN TRUE
    ELSE IF NumDigits(a.m) - a.e > NumDigits(b.m) - b.e THEN FALSE
    ELSE Leq(a, b)

\* a - b and |a - b|
Minus(a, b) == Plus(a, Dec(0 - b.m, b.e))

AbsDiff(a, b) == IF Leq(b, a) THEN Minus(a, b) ELSE Minus(b, a)

\* a * b, exact
Mul(a, b) == Dec(a.m * b.m, a.e + b.e)

\* pow(x, y) at the points the inputs below reach
pow_values ==
    << <<Dec(842, 2), Dec(181, 2), Dec(4729, 2)>>,
       <<Dec(13, 0), Dec(181, 2), Dec(1038, 1)>>,
       <<Dec(0, 0), Dec(181, 2), Dec(0, 0)>>,
       <<Dec(7, 0), Dec(181, 2), Dec(3386, 2)>>,
       <<Dec(175, 1), Dec(181, 2), Dec(1778, 1)>>,
       <<Dec(1555, 2), Dec(181, 2), Dec(1436, 1)>>,
       <<Dec(4, 0), Dec(181, 2), Dec(123, 1)>>,
       <<Dec(7182, 0), Dec(181, 2), Dec(9546000, 0)>>,
       <<Dec(82, 0), Dec(181, 2), Dec(2911, 0)>>,
       <<Dec(1079042, 2), Dec(181, 2), Dec(19940000, 0)>>,
       <<Dec(10795, 0), Dec(181, 2), Dec(19960000, 0)>>,
       <<Dec(10782, 0), Dec(181, 2), Dec(19920000, 0)>>,
       <<Dec(10775, 0), Dec(181, 2), Dec(19890000, 0)>>,
       <<Dec(107995, 1), Dec(181, 2), Dec(19970000, 0)>>,
       <<Dec(1079755, 2), Dec(181, 2), Dec(19970000, 0)>>,
       <<Dec(10778, 0), Dec(181, 2), Dec(19900000, 0)>>,
       <<Dec(3600, 0), Dec(181, 2), Dec(2735000, 0)>>,
       <<Dec(10700, 0), Dec(181, 2), Dec(19640000, 0)>>,
       <<Dec(883, 2), Dec(14, 1), Dec(211, 1)>>,
       <<Dec(425, 2), Dec(14, 1), Dec(7581, 3)>>,
       <<Dec(1725, 2), Dec(14, 1), Dec(5389, 2)>>,
       <<Dec(2425, 2), Dec(14, 1), Dec(8682, 2)>>,
       <<Dec(25, 2), Dec(14, 1), Dec(1436, 4)>>,
       <<Dec(17, 1), Dec(14, 1), Dec(2102, 3)>>,
       <<Dec(2125, 2), Dec(14, 1), Dec(7216, 2)>>,
       <<Dec(719925, 2), Dec(14, 1), Dec(251300, 0)>>,
       <<Dec(9925, 2), Dec(14, 1), Dec(6243, 1)>>,
       <<Dec(808, 2), Dec(105, 2), Dec(897, 2)>>,
       <<Dec(35, 1), Dec(105, 2), Dec(3726, 3)>>,
       <<Dec(165, 1), Dec(105, 2), Dec(1898, 2)>>,
       <<Dec(235, 1), Dec(105, 2), Dec(2752, 2)>>,
       <<Dec(1, 0), Dec(105, 2), Dec(1, 0)>>,
       <<Dec(95, 2), Dec(105, 2), Dec(9476, 4)>>,
       <<Dec(205, 1), Dec(105, 2), Dec(2384, 2)>>,
       <<Dec(71985, 1), Dec(105, 2), Dec(11220, 0)>>,
       <<Dec(985, 1), Dec(105, 2), Dec(1239, 1)>>,
       <<Dec(858, 2), Dec(135, 2), Dec(1821, 2)>>,
       <<Dec(4, 0), Dec(135, 2), Dec(6498, 3)>>,
       <<Dec(17, 0), Dec(135, 2), Dec(4583, 2)>>,
       <<Dec(24, 0), Dec(135, 2), Dec(7299, 2)>>,
       <<Dec(5, 1), Dec(135, 2), Dec(3923, 4)>>,
       <<Dec(145, 2), Dec(135, 2), Dec(1651, 3)>>,
       <<Dec(21, 0), Dec(135, 2), Dec(6095, 2)>>,
       <<Dec(7199, 0), Dec(135, 2), Dec(161200, 0)>>,
       <<Dec(99, 0), Dec(135, 2), Dec(4944, 1)>>,
       <<Dec(1142, 2), Dec(181, 2), Dec(8211, 2)>>,
       <<Dec(16, 0), Dec(181, 2), Dec(1512, 1)>>,
       <<Dec(3, 0), Dec(181, 2), Dec(7304, 3)>>,
       <<Dec(205, 1), Dec(181, 2), Dec(2367, 1)>>,
       <<Dec(1855, 2), Dec(181, 2), Dec(1976, 1)>>,
       <<Dec(1, 0), Dec(181, 2), Dec(1, 0)>>,
       <<Dec(7179, 0), Dec(181, 2), Dec(9538000, 0)>>,
       <<Dec(79, 0), Dec(181, 2), Dec(2721, 0)>>,
       <<Dec(1259042, 2), Dec(181, 2), Dec(26370000, 0)>>,
       <<Dec(12595, 0), Dec(181, 2), Dec(26390000, 0)>>,
       <<Dec(12582, 0), Dec(181, 2), Dec(26340000, 0)>>,
       <<Dec(12575, 0), Dec(181, 2), Dec(26310000, 0)>>,
       <<Dec(125995, 1), Dec(181, 2), Dec(26400000, 0)>>,
       <<Dec(1259755, 2), Dec(181, 2), Dec(26390000, 0)>>,
       <<Dec(12578, 0), Dec(181, 2), Dec(26320000, 0)>>,
       <<Dec(5400, 0), Dec(181, 2), Dec(5697000, 0)>>,
       <<Dec(12500, 0), Dec(181, 2), Dec(26030000, 0)>> >>

pow(x, y) ==
    IF x = Whole(0) THEN Whole(0)
    ELSE pow_values[CHOOSE i \in 1..Len(pow_values) :
                        pow_values[i][1] = x /\ pow_values[i][2] = y][3]

\* a slip: the score as computed, without the bounds
Unbounded(score) == score

\* max(0.0, min(1400.0, score))
Bounded(score) == IF FLeq(score, Whole(1400)) THEN score ELSE Whole(1400)

\* the value a function returns when it raises and the handler answers
DefaultScore == Whole(500)

calculate_performance_score_enhanced(result, event_name, measurement_unit, gender) ==
    IF IsNA(result) \/ event_name = NULL \/ Leq(result, Whole(0)) THEN DefaultScore
    ELSE IF gender \notin {"M", "F"} THEN DefaultScore
    ELSE LET gender_coeffs == WORLD_ATHLETICS_COEFFICIENTS(gender)
             found == FindEntry(gender_coeffs, Strip(event_name))
             A == gender_coeffs[found][2]
             B == gender_coeffs[found][3]
             C == gender_coeffs[found][4]
         IN  IF found = 0 THEN None
             ELSE IF measurement_unit = "seconds"
             THEN Bounded(FMul(A, pow(AbsDiff(B, result), C)))
             ELSE IF Leq(result, B)
             THEN FMul(FMul(A, pow(AbsDiff(result, B), C)), Dec(1, 1))
             ELSE Bounded(FMul(A, pow(AbsDiff(result, B), C)))

\* max(0, v) and min(1000, v) of the legacy formulas
AtLeastZero(v) == IF Leq(Whole(0), v) THEN v ELSE Whole(0)

AtMostThousand(v) == IF Leq(v, Whole(1000)) THEN v ELSE Whole(1000)

\* the loop runs over the keys 'M' and 'F' of WORLD_ATHLETICS_COEFFICIENTS: for an event
\* name with an m or an f, coeffs is a table of events and coeffs['A'] raises KeyError,
\* which the outer handler answers
calculate_performance_score(result, event_name, unit) ==
    IF IsNA(result) \/ event_name = NULL THEN DefaultScore
    ELSE LET event_str == Lower(Strip(event_name))
         IN  IF Contains(event_str, "m") \/ Contains(event_str, "f") THEN DefaultScore
             ELSE IF unit = "seconds"
             THEN (IF Contains(event_str, "100m")
                   THEN AtLeastZero(Minus(Whole(1000), Mul(Minus(result, Dec(95, 1)), Whole(200))))
                   ELSE IF Contains(event_str, "200m")
                   THEN AtLeastZero(Minus(Whole(1000), Mul(Minus(result, Whole(19)), Whole(100))))
                   ELSE IF Contains(event_str, "mile")
                   THEN AtLeastZero(Minus(Whole(1000), Mul(Minus(result, Whole(220)), Whole(5))))
                   ELSE IF Contains(event_str, "marathon")
                   THEN AtLeastZero(Minus(Whole(1000), Mul(Minus(result, Whole(7260)), Dec(5, 1))))
                   ELSE AtLeastZero(Minus(Whole(1000), Mul(result, Whole(2)))))
             ELSE (IF Contains(event_str, "shot put") THEN AtMostThousand(Mul(result, Whole(50)))
                   ELSE IF Contains(event_str, "javelin")
                   THEN AtMostThousand(Mul(result, Dec(125, 1)))
                   ELSE IF Contains(event_str, "high jump")
                   THEN AtMostThousand(Mul(result, Whole(435)))
                   ELSE IF Contains(event_str, "long jump")
                   THEN AtMostThousand(Mul(result, Whole(118)))
                   ELSE AtMostThousand(Mul(result, Whole(25))))

ScoreResultSample ==
    {Whole(0), NaN, Dec(958, 2), Whole(5), Whole(18), Whole(25), Dec(5, 1), Dec(245, 2),
     Whole(22), Whole(7200), Whole(100)}

ScoreEventSample ==
    {"100 Metres", "Marathon", "High Jump", "Shot Put", "Pole Vault Indoor", "60 Metres",
     "4x100 Relay"}

InitScore ==
    /\ pc = "score"
    /\ arg \in [result : ScoreResultSample, event_name : ScoreEventSample,
                 measurement_unit : {"seconds", "meters"}, gender : {"M", "F", "U"}]
    /\ ret = Unset
    /\ EmptyDb

ScorePerformance ==
    /\ pc = "score"
    /\ ret' = calculate_performance_score_enhanced(arg.result, arg.event_name,
                                                   arg.measurement_unit, arg.gender)
    /\ pc' = "scored"
    /\ UNCHANGED <<arg, dbVars>>

NextScore == ScorePerformance

SpecScore == InitScore /\ [][NextScore]_vars

\* the result is a finite positive number
FinitePositive(result) == IsNum(result) /\ Gt(result, Whole(0))

\* the event and the gender match an entry of the coefficient table
HasCoefficients(event_name, gender) ==
    gender \in {"M", "F"} /\ FindEntry(WORLD_ATHLETICS_COEFFICIENTS(gender), Strip(event_name)) # 0

\* C18: for a finite positive result whose event and gender match a coefficient entry the
\* score is a number from 0 to 1400, on the time branch and on the distance branch
C18_ScoreInRange ==
    (/\ pc = "scored"
     /\ FinitePositive(arg.result)
     /\ HasCoefficients(arg.event_name, arg.gender)) =>
        IsNum(ret) /\ Leq(Whole(0), ret) /\ FLeq(ret, Whole(1400))

\* a jump below the baseline B with its reduced score, not zero
C18_Witness ==
    /\ pc = "scored"
    /\ arg = [result |-> Dec(5, 1), event_name |-> "High Jump", measurement_unit |-> "meters",
              gender |-> "M"]
    /\ IsNum(ret) /\ Gt(ret, Whole(0)) /\ FLeq(ret, Whole(10))

\* C19: for a finite positive result whose event and gender match no coefficient entry the
\* score is a number, the one of the legacy calculation
C19_LegacyScore ==
    (/\ pc = "scored"
     /\ FinitePositive(arg.result)
     /\ ~HasCoefficients(arg.event_name, arg.gender)) =>
        /\ IsNum(ret)
        /\ ret = calculate_performance_score(arg.result, arg.event_name, arg.measurement_unit)

(***************************************************************************)
(* 04_load_facts.py: get_event_duration_category,                          *)
(* calculate_altitude_adjustment                                           *)
(***************************************************************************)
EVENT_CATEGORIES ==
    << <<"Sprint", <<"100 Metres", "200 Metres", "300 Metres", "400 Metres",
                     "100 Metres Hurdles", "110 Metres Hurdles", "400 Metres Hurdles">> >>,
       <<"Middle Distance", <<"600 Metres", "800 Metres", "1000 Metres", "1500 Metres",
                              "One Mile", "Two Miles", "3000 Metres",
                              "3000 Metres Steeplechase", "2000 Metres",
                              "2000 Metres Steeplechase">> >>,
       <<"Distance", <<"5000 Metres", "10000 Metres", "Marathon", "Half Marathon",
                       "3000 Metres Race Walk", "5000 Metres Race Walk",
                       "10000 Metres Race Walk", "20000 Metres Race Walk">> >>,
       <<"Jumps", <<"High Jump", "Long Jump", "Triple Jump", "Pole Vault">> >>,
       <<"Throws", <<"Shot Put", "Discus Throw", "Hammer Throw", "Javelin Throw">> >> >>

get_event_duration_category(event_name) ==
    IF event_name = NULL THEN "Field"
    ELSE LET event_str == Lower(Strip(event_name))
             hits == {k \in 1..Len(EVENT_CATEGORIES) :
                         \E i \in 1..Len(EVENT_CATEGORIES[k][2]) :
                             Contains(event_str, Lower(EVENT_CATEGORIES[k][2][i]))}
         IN  IF hits = {} THEN "Field"
             ELSE EVENT_CATEGORIES[CHOOSE k \in hits : \A j \in hits : k <= j][1]

\* the result of a division, kept exact
Quotient(a, b) == [kind |-> "quotient", num |-> a, den |-> b]

\* a slip: no effect of the altitude
PerMetreNothing(duration_category) == Whole(0)

\* time_penalty_per_1000m, time_benefit_per_1000m, distance_benefit_per_1000m and
\* jump_benefit_per_1000m, each divided by the 1000.0 of altitude_km
PerMetre(duration_category) ==
    IF duration_category \in {"Middle Distance", "Distance"} THEN Dec(63, 6)
    ELSE IF duration_category = "Sprint" THEN Dec(95, 7)
    ELSE IF duration_category = "Throws" THEN Dec(12, 6)
    ELSE Dec(8, 6)

\* a slip: the adjustment starts at sea level
NoAdjustmentBelowZero(altitude) == IsNA(altitude) \/ Leq(altitude, Whole(0))

\* pd.isna(altitude) or altitude <= 300
NoAdjustment(altitude) == IsNA(altitude) \/ Leq(altitude, Whole(300))

\* the result of a multiplication, kept exact
Product(a, b) == [kind |-> "product", left |-> a, right |-> b]

\* staging keeps results at most DATA_QUALITY['max_result_value'] = 50000 and the factors
\* of the altitudes of the Earth lie between 1 and 2: a quotient or a product of a result up
\* to 499999 stays under the upper bound of min(999999.0, ...), which is exact up to there
calculate_altitude_adjustment(result, altitude, event_name, measurement_unit) ==
    IF NoAdjustment(altitude) THEN result
    ELSE IF result = None THEN result
    ELSE IF result = NaN THEN Whole(999999)
    ELSE LET duration_category == get_event_duration_category(event_name)
             factor == Plus(Whole(1),
                            Mul(Minus(altitude, Whole(300)), PerMetre(duration_category)))
         IN  IF Leq(result, Whole(0)) THEN Whole(0)
             ELSE IF duration_category = "Field"
             THEN (IF FLeq(result, Whole(999999)) THEN result ELSE Whole(999999))
             ELSE IF ~FLeq(result, Whole(499999)) THEN Whole(999999)
             ELSE IF duration_category = "Sprint" THEN Product(result, factor)
             ELSE Quotient(result, factor)

\* missing altitudes, altitudes up to the 300 m of the baseline, and altitudes above it up
\* to the 4000 m that load_fact_table reads
AltitudeSample ==
    {None, NaN, Whole(0), Whole(34), Whole(300), Dec(3001, 1), Whole(2240), Whole(4000)}

\* results from the 0.1 to the 50000 that the staging layer lets through, and a missing one
AltitudeResultSample ==
    {Dec(1, 1), Dec(958, 2), Whole(7200), Dec(245, 2), Whole(22), Whole(50000), NaN}

\* the events of a category
EventsOf(category) ==
    LET k == CHOOSE j \in 1..Len(EVENT_CATEGORIES) : EVENT_CATEGORIES[j][1] = category
    IN  Range(EVENT_CATEGORIES[k][2])

\* every event of every category, an event of none and a missing name
AltitudeEventSample ==
    EventsOf("Sprint") \cup EventsOf("Middle Distance") \cup EventsOf("Distance")
        \cup EventsOf("Jumps") \cup EventsOf("Throws") \cup {"60 Metres", NULL}

InitAltitude ==
    /\ pc = "adjust"
    /\ arg \in [result : AltitudeResultSample, altitude : AltitudeSample,
                 event_name : AltitudeEventSample, measurement_unit : {"seconds", "meters"}]
    /\ ret = Unset
    /\ EmptyDb

AdjustForAltitude ==
    /\ pc = "adjust"
    /\ ret' = calculate_altitude_adjustment(arg.result, arg.altitude, arg.event_name,
                                            arg.measurement_unit)
    /\ pc' = "adjusted"
    /\ UNCHANGED <<arg, dbVars>>

NextAltitude == AdjustForAltitude

SpecAltitude == InitAltitude /\ [][NextAltitude]_vars

\* C20: with the altitude missing or at most 300 m the result comes back unchanged, for
\* every event and unit
C20_UnchangedUpTo300 ==
    (pc = "adjusted" /\ (IsNA(arg.altitude) \/ Leq(arg.altitude, Whole(300)))) =>
        ret = arg.result

\* a marathon time at exactly 300 m, an event that is adjusted above it
C20_Witness ==
    /\ pc = "adjusted"
    /\ arg.altitude = Whole(300)
    /\ arg.event_name = "Marathon"
    /\ arg.result = Whole(7200)
    /\ ret = Whole(7200)

\* adjusted < result for a result > 0: a quotient by more than 1
Smaller(adjusted, result) ==
    adjusted.kind = "quotient" /\ adjusted.num = result /\ Gt(adjusted.den, Whole(1))

\* adjusted > result for a result > 0: a product with more than 1
Larger(adjusted, result) ==
    adjusted.kind = "product" /\ adjusted.left = result /\ Gt(adjusted.right, Whole(1))

\* C28: above 300 m a positive result of a middle-distance, distance, throwing or jumping
\* event is adjusted to a strictly smaller value, one of a sprint event to a strictly larger
\* value, and one of an event in no category is left as it is
C28_DirectionByCategory ==
    (/\ pc = "adjusted"
     /\ ~IsNA(arg.altitude) /\ Gt(arg.altitude, Whole(300))
     /\ ~IsNA(arg.result) /\ Gt(arg.result, Whole(0))) =>
        /\ arg.event_name \in EventsOf("Middle Distance") \cup EventsOf("Distance")
               \cup EventsOf("Throws") \cup EventsOf("Jumps")
               => Smaller(ret, arg.result)
        /\ arg.event_name \in EventsOf("Sprint") => Larger(ret, arg.result)
        /\ get_event_duration_category(arg.event_name) = "Field" => ret = arg.result

\* a race walk named in the distance list and read as middle distance, at 2240 m
C28_Witness ==
    /\ pc = "adjusted"
    /\ arg.altitude = Whole(2240)
    /\ arg.event_name = "3000 Metres Race Walk"
    /\ arg.result = Whole(7200)
    /\ get_event_duration_category(arg.event_name) = "Middle Distance"
    /\ Smaller(ret, arg.result)

(***************************************************************************)
(* 04_load_facts.py: calculate_temperature_impact_factor                   *)
(***************************************************************************)
\* impact_rate of the duration category
impact_rate(duration_category) ==
    IF duration_category \in {"Sprint", "Jumps", "Throws"} THEN Dec(1, 3)
    ELSE IF duration_category = "Middle Distance" THEN Dec(2, 3)
    ELSE IF duration_category = "Distance" THEN Dec(4, 3)
    ELSE Dec(2, 3)

\* a slip: the factor as computed, without the bounds
Unclamped(impact_factor) == impact_factor

\* max(0.5, min(1.5, impact_factor))
Clamped(impact_factor) ==
    IF Leq(impact_factor, Dec(5, 1)) THEN Dec(5, 1)
    ELSE IF Leq(Dec(15, 1), impact_factor) THEN Dec(15, 1)
    ELSE impact_factor

calculate_temperature_impact_factor(temperature, event_name) ==
    IF IsNA(temperature) THEN Whole(1)
    ELSE LET temp_deviation == AbsDiff(temperature, Whole(11))
             impact_factor ==
                 Minus(Whole(1),
                       Mul(temp_deviation, impact_rate(get_event_duration_category(event_name))))
         IN  Clamped(impact_factor)

\* temperatures in degrees Celsius: missing, in the optimal range, and far enough from it
\* for the bound to act (125 degrees from the optimum at 0.4% a degree is exactly 0.5)
ImpactTemperatureSample ==
    {None, NaN, Whole(0 - 50), Whole(0), Whole(11), Whole(19), Dec(255, 1), Whole(40),
     Whole(136), Dec(1361, 1), Whole(600), Whole(0 - 2000)}

ImpactEventSample ==
    {"100 Metres", "1500 Metres", "Marathon", "High Jump", "Shot Put", "60 Metres",
     "10,000 Metres", NULL}

InitImpact ==
    /\ pc = "impact"
    /\ arg \in [temperature : ImpactTemperatureSample, event_name : ImpactEventSample]
    /\ ret = Unset
    /\ EmptyDb

TemperatureImpact ==
    /\ pc = "impact"
    /\ ret' = calculate_temperature_impact_factor(arg.temperature, arg.event_name)
    /\ pc' = "impact computed"
    /\ UNCHANGED <<arg, dbVars>>

NextImpact == TemperatureImpact

SpecImpact == InitImpact /\ [][NextImpact]_vars

\* C21: the temperature impact factor lies in [0.5, 1.5] for every finite temperature and
\* every event name, and is the neutral 1.0 when the temperature is missing
C21_FactorInRange ==
    pc = "impact computed" =>
        /\ Leq(Dec(5, 1), ret) /\ Leq(ret, Dec(15, 1))
        /\ IsNA(arg.temperature) => ret = Whole(1)

\* a marathon at 136.1 degrees, where the computed factor 0.4996 is raised to 0.5
C21_Witness ==
    /\ pc = "impact computed"
    /\ arg.temperature = Dec(1361, 1)
    /\ arg.event_name = "Marathon"
    /\ ret = Dec(5, 1)

(***************************************************************************)
(* 03_load_dimensions.py: load_date_dimension                              *)
(***************************************************************************)
RECURSIVE DigitText(_)
\* str(n) for n >= 0
DigitText(n) ==
    IF n < 10 THEN Ch(Digits, n + 1) ELSE DigitText(n \div 10) \o Ch(Digits, (n % 10) + 1)

FirstYear == 2000

LastYear == 2024

\* one row per year, season and level, in the order of the three loops
date_data ==
    [i \in 1..((LastYear - FirstYear + 1) * 6) |->
        LET year == FirstYear + (i - 1) \div 6
            season == IF ((i - 1) \div 3) % 2 = 0 THEN "Indoor" ELSE "Outdoor"
            level == <<"Elite", "Professional", "Amateur">>[((i - 1) % 3) + 1]
        IN  [full_date |-> DigitText(year) \o (IF season = "Indoor" THEN "-03-15" ELSE "-07-15"),
             year |-> year, season |-> season, competition_level |-> level]]

(***************************************************************************)
(* 04_load_facts.py: filter_performance_outliers, load_fact_table          *)
(***************************************************************************)
\* perf_query: the performances with a result whose event is no half marathon
PerfQuery(performances_t, events_t) ==
    FilterRows(performances_t, LAMBDA p :
        /\ ~IsNA(p.result_value)
        /\ ~\E i \in 1..Len(events_t) :
               /\ events_t[i].event_key = p.event_key
               /\ Contains(Lower(events_t[i].event_name), "half marathon"))

\* the venue query: the venues with an altitude from 0 to 4000
VenueDimQuery(venue_t) ==
    FilterRows(venue_t, LAMBDA v :
        ~IsNA(v.altitude) /\ Leq(Whole(0), v.altitude) /\ Leq(v.altitude, Whole(4000)))

VenueColumns(v) == [altitude |-> v.altitude]

\* a slip: the venue join as a left join
LeftVenueJoin(perf, venue_dim) ==
    LeftMerge(perf, venue_dim, LAMBDA p, v : p.venue_key = v.venue_key, VenueColumns,
              [altitude |-> None])

\* merge(venue_dim, on='venue_key', how='inner')
InnerVenueJoin(perf, venue_dim) ==
    LeftMerge(FilterRows(perf, LAMBDA p :
                  \E i \in 1..Len(venue_dim) : venue_dim[i].venue_key = p.venue_key),
              venue_dim, LAMBDA p, v : p.venue_key = v.venue_key, VenueColumns,
              [altitude |-> None])

\* Step 4: the five joins
JoinDimensions(perf, athlete_dim, event_dim, venue_dim, weather_dim, date_dim) ==
    LET with_athlete == LeftMerge(perf, athlete_dim,
                            LAMBDA p, a : p.athlete_key = a.athlete_key,
                            LAMBDA a : [gender |-> a.gender],
                            [gender |-> NULL])
        with_event == LeftMerge(with_athlete, event_dim,
                            LAMBDA p, e : p.event_key = e.event_key,
                            LAMBDA e : [event_name |-> e.event_name,
                                        measurement_unit |-> e.measurement_unit],
                            [event_name |-> NULL, measurement_unit |-> NULL])
        with_venue == InnerVenueJoin(with_event, venue_dim)
        with_weather == LeftMerge(with_venue, weather_dim,
                            LAMBDA p, w : p.weather_key = w.weather_key,
                            LAMBDA w : [temperature |-> w.temperature],
                            [temperature |-> None])
    IN  LeftMerge(with_weather, date_dim,
            LAMBDA p, d : MonthOfDate(p.competition_date) # 0
                              /\ p.competition_date = d.full_date,
            LAMBDA d : [date_key |-> d.date_key],
            [date_key |-> NoKey])

\* the realistic rows
filter_performance_outliers(df) ==
    FilterRows(df, LAMBDA row :
        is_realistic_performance(row.result_value, row.event_name, row.measurement_unit,
                                 row.gender))

\* Steps 6 to 8: the rows with their athlete, event and venue keys that pass the filter
KeyedRealistic(joined) ==
    FilterRows(filter_performance_outliers(
                   FilterRows(joined, LAMBDA p : p.athlete_key # NoKey /\ p.event_key # NoKey)),
               LAMBDA p : p.athlete_key # NoKey /\ p.event_key # NoKey /\ p.venue_key # NoKey)

\* Steps 9 to 12: the measures, the rows with a date and a venue, the columns of the table
FactRows(perf) ==
    MapRows(FilterRows(perf, LAMBDA p : p.date_key # NoKey /\ p.venue_key # NoKey),
            LAMBDA row :
                [src |-> row.performance_key,
                 athlete_key |-> row.athlete_key,
                 event_key |-> row.event_key,
                 venue_key |-> row.venue_key,
                 date_key |-> row.date_key,
                 weather_key |-> row.weather_key,
                 gender |-> row.gender,
                 result_value |-> row.result_value,
                 performance_score |->
                     calculate_performance_score_enhanced(row.result_value, row.event_name,
                                                          row.measurement_unit, row.gender),
                 altitude_adjusted_result |->
                     calculate_altitude_adjustment(row.result_value, row.altitude,
                                                   row.event_name, row.measurement_unit),
                 temperature_impact_factor |->
                     calculate_temperature_impact_factor(row.temperature, row.event_name),
                 data_source |-> row.data_source,
                 load_batch_id |-> 1])

\* the success rates of Step 5 and the outlier percentage of Step 7 divide by the number of
\* rows: without one the load raises before the table is touched. With every row filtered
\* out, apply(axis=1) of Step 9 gives a frame, which the assignment to one column takes or
\* refuses, by the version of pandas.
load_fact_table ==
    /\ pc = "load_fact_table"
    /\ LET joined == JoinDimensions(PerfQuery(performances, events), dim_athlete, dim_event,
                                    VenueDimQuery(dim_venue), dim_weather, dim_date)
           keyed == FilterRows(joined, LAMBDA p : p.athlete_key # NoKey /\ p.event_key # NoKey)
           perf == KeyedRealistic(joined)
       IN  \/ /\ Len(joined) = 0 \/ Len(keyed) = 0 \/ Len(perf) = 0
              /\ pc' = "failed"
              /\ UNCHANGED fact_performance
           \/ /\ Len(joined) > 0 /\ Len(keyed) > 0
              /\ pc' = "loaded"
              /\ fact_performance' = AppendRows(<<>>, "performance_id", FactRows(perf))
    /\ UNCHANGED <<fnVars, stagingVars, cleanVars, reconciledVars, dim_athlete, dim_event,
                   dim_venue, dim_weather, dim_date>>

NextFacts == load_fact_table

\* reconciled events: a sprint and a jump
FactEvents ==
    AppendRows(<<>>, "event_key",
               <<[event_name |-> "100 Metres", measurement_unit |-> "seconds"],
                 [event_name |-> "Long Jump", measurement_unit |-> "meters"]>>)

\* the dimensions: athlete 2 and event 2 have no row, venue 2 has no altitude, venue 3 and
\* weather 2 have no row
FactAthletes == <<[athlete_key |-> 1, athlete_name |-> "Usain Bolt", gender |-> "M"]>>

FactEventDim ==
    <<[event_key |-> 1, event_name |-> "100 Metres", measurement_unit |-> "seconds"]>>

FactVenues ==
    <<[venue_key |-> 1, venue_name |-> "BERLIN (GER)", altitude |-> Whole(34)],
      [venue_key |-> 2, venue_name |-> "NASSAU (BAH)", altitude |-> None]>>

FactWeather == <<[weather_key |-> 1, temperature |-> Whole(19)]>>

\* reconciled performances: one with every reference, and one for each reference without
\* a row in its dimension
FactPerformanceSample ==
    LET good == [src |-> 0, athlete_key |-> 1, event_key |-> 1, venue_key |-> 1,
                 weather_key |-> 1, competition_date |-> "2009-07-15",
                 result_value |-> Dec(958, 2), data_source |-> "World_Athletics"]
    IN  {good,
         [good EXCEPT !.venue_key = 2],
         [good EXCEPT !.venue_key = 3],
         [good EXCEPT !.competition_date = "2009-08-16"],
         [good EXCEPT !.athlete_key = 2],
         [good EXCEPT !.event_key = 2],
         [good EXCEPT !.weather_key = 2]}

\* load_date_dimension appends its rows without a commit of its own: the table holds them
\* where the connection commits by itself and stays empty where it does not
DateDimensions == {<<>>, AppendRows(<<>>, "date_key", date_data)}

InitFacts ==
    /\ pc = "load_fact_table" /\ arg = "" /\ ret = Unset
    /\ raw_wa = <<>> /\ raw_cities = <<>> /\ raw_temperature = <<>>
    /\ clean_wa = <<>> /\ clean_cities = <<>> /\ clean_temperature = <<>>
    /\ athletes = <<>> /\ venues = <<>> /\ weather_conditions = <<>>
    /\ events = FactEvents
    /\ \E rows \in Tables(FactPerformanceSample, MaxRows) :
           performances = AppendRows(<<>>, "performance_key", rows)
    /\ dim_athlete = FactAthletes /\ dim_event = FactEventDim /\ dim_venue = FactVenues
    /\ dim_weather = FactWeather
    /\ dim_date \in DateDimensions
    /\ fact_performance = <<>>

SpecFacts == InitFacts /\ [][NextFacts]_vars

\* the performance has a venue row with a usable altitude
HasVenue(p) ==
    \E i \in 1..Len(dim_venue) :
        /\ dim_venue[i].venue_key = p.venue_key
        /\ ~IsNA(dim_venue[i].altitude)
        /\ Leq(Whole(0), dim_venue[i].altitude) /\ Leq(dim_venue[i].altitude, Whole(4000))

\* the competition date of the performance has a row in the date dimension
HasDate(p) == \E i \in 1..Len(dim_date) : dim_date[i].full_date = p.competition_date

\* the performance has its athlete and its event, and a result the outlier filter keeps
Loadable(p) ==
    \E a \in 1..Len(dim_athlete), e \in 1..Len(dim_event) :
        /\ dim_athlete[a].athlete_key = p.athlete_key
        /\ dim_event[e].event_key = p.event_key
        /\ ~Contains(Lower(dim_event[e].event_name), "half marathon")
        /\ is_realistic_performance(p.result_value, dim_event[e].event_name,
                                    dim_event[e].measurement_unit, dim_athlete[a].gender)

Emitted(p) ==
    \E i \in 1..Len(fact_performance) : fact_performance[i].src = p.performance_key

\* the key that stands for an unknown venue or date
SentinelKey == 1

FactRowsOf(p) == {i \in 1..Len(fact_performance) : fact_performance[i].src = p.performance_key}

\* C26: the fact table has one row per performance at most: no join of load_fact_table
\* multiplies a performance, for the dimension rows the dimension loader writes
C26_OneRowPerPerformance ==
    pc = "loaded" =>
        \A k \in 1..Len(performances) : Cardinality(FactRowsOf(performances[k])) <= 1

(***************************************************************************)
(* Special cases: staged venue labels through extract_location_from_venue  *)
(***************************************************************************)
\* venue labels as the source files write them: a special case or another place, alone,
\* behind a stadium, before a country or before a state and a country
SpecialPrefixSample == {"", "Stadium Nord, "}

SpecialPlaceSample ==
    {"Paris-St-Denis", "Villeneuve d'Ascq", "Adler, Sochi", "DS, Daegu",
     "La Cartuja, Sevilla", "Berlin", "Home Field"}

SpecialSuffixSample == {"", " (FRA)", " (RUS)", ", FR (FRA)"}

SpecialLabels ==
    {prefix \o place \o suffix :
        prefix \in SpecialPrefixSample, place \in SpecialPlaceSample,
        suffix \in SpecialSuffixSample}

InitSpecial == pc = "extract" /\ arg \in SpecialLabels /\ ret = Unset /\ EmptyDb

\* the label as clean_world_athletics_data stages it, then the extraction
ExtractStaged ==
    /\ pc = "extract"
    /\ ret' = extract_location_from_venue(Upper(Strip(arg)))
    /\ pc' = "extracted"
    /\ UNCHANGED <<arg, dbVars>>

NextSpecial == ExtractStaged

SpecSpecial == InitSpecial /\ [][NextSpecial]_vars

\* the special cases the label contains, whatever the case of its letters
SpecialsIn(label) ==
    {i \in 1..Len(special_cases) : Contains(Upper(label), Upper(special_cases[i][1]))}

\* C22: a label that contains a special case resolves to the city of the first special
\* case it contains, also when the label fits a comma or parenthesis pattern
C22_SpecialCaseFirst ==
    (pc = "extracted" /\ SpecialsIn(arg) # {}) =>
        ret.city = special_cases[CHOOSE i \in SpecialsIn(arg) :
                                     \A j \in SpecialsIn(arg) : i <= j][2]

(***************************************************************************)
(* Fallback: venue labels against a gazetteer with a nameless city         *)
(***************************************************************************)
\* a gazetteer that knows Berlin and holds one row without a city name
NamelessCities ==
    << [City |-> "Berlin", Country |-> "DE", Latitude |-> "52.5", Longitude |-> "13.4",
        Altitude |-> "34"],
       [City |-> NULL, Country |-> "DE", Latitude |-> "10.5", Longitude |-> "20.5",
        Altitude |-> "500"] >>

\* a label no pattern reads, a label of the gazetteer and one with another country
FallbackVenueSample == {"Home Field", "Berlin (GER)", "Berlin (FRA)"}

FallbackRows ==
    {[Competitor |-> "A Bo", Event |-> "100 Metres", Mark |-> "9.58",
      Venue |-> v, Date |-> "2009-08-16", Nat |-> "JAM", Sex |-> "male"] :
        v \in FallbackVenueSample}

InitFallback ==
    /\ PipelineStart
    /\ raw_wa \in Tables(FallbackRows, MaxRows)
    /\ raw_cities = NamelessCities
    /\ raw_temperature = BerlinTemperature
    /\ FreshOrPrevious

SpecFallback == InitFallback /\ [][NextPipeline]_vars

\* the extraction found no city in the label
ExtractionFailed(label) == extract_location_from_venue(label).city = "Unknown"

\* C23: a venue whose extraction failed receives no latitude, longitude or altitude from
\* the gazetteer, whatever rows the gazetteer holds
C23_NoGeographyForUnknown ==
    VenuesReconciled =>
        \A i \in 1..Len(venues) :
            ExtractionFailed(venues[i].venue_name) =>
                /\ venues[i].latitude = None
                /\ venues[i].longitude = None
                /\ venues[i].altitude = None

(***************************************************************************)
(* Saving: chunked_save_to_postgres and TRUNCATE with append, commit by    *)
(* commit                                                                  *)
(***************************************************************************)
MaxSaveRows == 3

MaxChunkSize == 2

SaveRowSample == {"a", "b"}

\* the frames of 0..MaxSaveRows rows
SaveFrames == {<<>>} \cup Tables(SaveRowSample, MaxSaveRows)

\* what an earlier run left in the table
OldTables == {<<>>, <<"old">>}

\* a call of chunked_save_to_postgres on staging.clean_world_athletics, or the TRUNCATE
\* and append of reconcile_performances on reconciled.performances; i counts the chunks
\* committed
InitSave ==
    /\ ret = Unset
    /\ raw_wa = <<>> /\ raw_cities = <<>> /\ raw_temperature = <<>>
    /\ clean_cities = <<>> /\ clean_temperature = <<>>
    /\ athletes = <<>> /\ events = <<>> /\ venues = <<>> /\ weather_conditions = <<>>
    /\ EmptyDwh
    /\ \E df \in SaveFrames, old \in OldTables :
           \/ /\ pc = "chunked_save_to_postgres"
              /\ \E chunk_size \in 1..MaxChunkSize :
                     arg = [df |-> df, table_name |-> "clean_world_athletics",
                            chunk_size |-> chunk_size, old |-> old, i |-> 0]
              /\ clean_wa = old /\ performances = <<>>
           \/ /\ pc = "truncate"
              /\ arg = [df |-> df, table_name |-> "performances", chunk_size |-> 0,
                        old |-> old, i |-> 0]
              /\ clean_wa = <<>> /\ performances = old

saveOther ==
    <<ret, stagingVars, clean_cities, clean_temperature, athletes, events, venues,
      weather_conditions, dwhVars>>

\* chunk_start of iteration i of range(0, len(df), chunk_size)
ChunkStart == arg.i * arg.chunk_size

\* df.iloc[chunk_start:chunk_end]
Chunk ==
    LET chunk_end == IF ChunkStart + arg.chunk_size < Len(arg.df)
                     THEN ChunkStart + arg.chunk_size ELSE Len(arg.df)
    IN  SubSeq(arg.df, ChunkStart + 1, chunk_end)

\* one iteration: to_sql with 'replace' for the first chunk and 'append' for the others,
\* then conn.commit()
SaveChunk ==
    /\ pc = "chunked_save_to_postgres"
    /\ ChunkStart < Len(arg.df)
    /\ clean_wa' = IF arg.i = 0 THEN Chunk ELSE clean_wa \o Chunk
    /\ arg' = [arg EXCEPT !.i = arg.i + 1]
    /\ UNCHANGED <<pc, performances, saveOther>>

\* to_sql of an iteration raises: the connection rolls the open chunk back, the chunks
\* committed before stay
SaveChunkRaises ==
    /\ pc = "chunked_save_to_postgres"
    /\ ChunkStart < Len(arg.df)
    /\ pc' = "failed"
    /\ UNCHANGED <<arg, clean_wa, performances, saveOther>>

\* the loop is over
SaveReturns ==
    /\ pc = "chunked_save_to_postgres"
    /\ ChunkStart >= Len(arg.df)
    /\ pc' = "saved"
    /\ UNCHANGED <<arg, clean_wa, performances, saveOther>>

\* TRUNCATE TABLE ... RESTART IDENTITY, then conn.commit()
TruncateTable ==
    /\ pc = "truncate"
    /\ performances' = <<>>
    /\ pc' = "append"
    /\ UNCHANGED <<arg, clean_wa, saveOther>>

\* the COPY of ultra_fast_postgres_append in its transaction
AppendFrame ==
    /\ pc = "append"
    /\ performances' = performances \o arg.df
    /\ pc' = "saved"
    /\ UNCHANGED <<arg, clean_wa, saveOther>>

\* the COPY raises and its transaction is rolled back; the TRUNCATE was committed before
AppendRaises ==
    /\ pc = "append"
    /\ pc' = "failed"
    /\ UNCHANGED <<arg, clean_wa, performances, saveOther>>

NextSave ==
    \/ SaveChunk
    \/ SaveChunkRaises
    \/ SaveReturns
    \/ TruncateTable
    \/ AppendFrame
    \/ AppendRaises

SpecSave == InitSave /\ [][NextSave]_vars

\* the table the call writes
StoredTable == IF arg.table_name = "performances" THEN performances ELSE clean_wa

\* C24: after a write that failed part-way the stored table is as it was before the
\* stage: neither a prefix of the new rows nor an emptied table
C24_NoPartialCommit == pc = "failed" => StoredTable = arg.old

\* C29: after chunked_save_to_postgres returns the table holds exactly the rows of df in
\* order, for every length of df and every chunk size
C29_TableIsFrame ==
    (pc = "saved" /\ arg.table_name = "clean_world_athletics") => clean_wa = arg.df

\* what the code does keep: a frame with rows replaces the table
SavedNonEmptyFrame ==
    (pc = "saved" /\ Len(arg.df) > 0) => StoredTable = arg.df

(***************************************************************************)
(* 02b_load_reconciled.py main: the order of the stages                    *)
(***************************************************************************)
\* the calls of main, in order, and its end
ReconciliationOrder ==
    <<"clear_reconciled_tables", "reconcile_athletes", "reconcile_events", "reconcile_venues",
      "reconcile_weather", "reconcile_performances", "done">>

\* the place of a stage in main, 0 for what is not one
StageOf(stage) ==
    IF \E k \in 1..Len(ReconciliationOrder) : ReconciliationOrder[k] = stage
    THEN CHOOSE k \in 1..Len(ReconciliationOrder) : ReconciliationOrder[k] = stage
    ELSE 0

\* the four reference tables hold what their stages write into cleared tables
ReferenceTablesWritten ==
    /\ \E df \in Orders(AthleteCandidates(clean_wa)) :
           athletes = AppendRows(<<>>, "athlete_key", ReconciledAthletes(df))
    /\ \E df \in Orders(EventCandidates(clean_wa)) :
           events = AppendRows(<<>>, "event_key", ReconciledEvents(df))
    /\ \E df \in Orders(VenueCandidates(clean_wa)) :
           venues = AppendRows(<<>>, "venue_key", ReconciledVenues(df, clean_cities))
    /\ \E df \in Orders(WeatherCandidates(clean_temperature)) :
       \E walk \in Orders(missing_cities(df, clean_wa)) :
           weather_conditions =
               AppendRows(<<>>, "weather_key", ActualWeather(df) \o Estimates(walk))

\* C25: the stages of a run follow one another in the order of main, each table is written
\* by its own stage only, reconcile_performances starts with the four reference tables
\* written into cleared tables, and after a failed stage nothing runs
C25_StrictSequence ==
    /\ [][/\ pc # "failed"
          /\ StageOf(pc) > 0 => (pc' = "failed" \/ StageOf(pc') = StageOf(pc) + 1)
          /\ athletes' # athletes => pc \in {"clear_reconciled_tables", "reconcile_athletes"}
          /\ events' # events => pc \in {"clear_reconciled_tables", "reconcile_events"}
          /\ venues' # venues => pc \in {"clear_reconciled_tables", "reconcile_venues"}
          /\ weather_conditions' # weather_conditions
                 => pc \in {"clear_reconciled_tables", "reconcile_weather"}
          /\ performances' # performances
                 => pc \in {"clear_reconciled_tables", "reconcile_performances"}]_vars
    /\ [](pc = "reconcile_performances" => ReferenceTablesWritten)
    /\ [](pc \in {"reconcile_weather", "reconcile_performances", "done"}
              => VenueCandidates(clean_wa) # {})

\* a run that reached its end with every table written
C25_Witness ==
    /\ pc = "done"
    /\ ReferenceTablesWritten
    /\ Len(athletes) > 0 /\ Len(events) > 0 /\ Len(venues) > 0
    /\ Len(weather_conditions) > 0 /\ Len(performances) > 0

(***************************************************************************)
(* Deduplication: the candidates of one query through reconcile_athletes   *)
(***************************************************************************)
\* two spellings of one athlete and another athlete, with and without a nationality
DedupNameSample == {"USAIN BOLT", "USAIN BOLT JR.", "YOHAN BLAKE"}

DedupCandidates ==
    [athlete_name : DedupNameSample, nationality : {"JAM", "USA", NULL},
     gender : {"male", "female"}, data_source : {"World_Athletics"}]

\* the frames SELECT DISTINCT can return: up to MaxRows different rows in any order
InitDedup ==
    /\ pc = "deduplicate"
    /\ \E rows \in SUBSET DedupCandidates :
           /\ Cardinality(rows) \in 1..MaxRows
           /\ arg \in Orders(rows)
    /\ ret = Unset
    /\ EmptyDb

Deduplicate ==
    /\ pc = "deduplicate"
    /\ ret' = ReconciledAthletes(arg)
    /\ pc' = "deduplicated"
    /\ UNCHANGED <<arg, dbVars>>

NextDedup == Deduplicate

SpecDedup == InitDedup /\ [][NextDedup]_vars

\* the candidates with the normalized name of the record
SameAthlete(record) ==
    {k \in 1..Len(arg) : normalize_athlete_name(arg[k].athlete_name)
                             = normalize_athlete_name(record.athlete_name)}

\* the candidate is the whole of the record
RecordOf(candidate, record) ==
    /\ record.athlete_name = candidate.athlete_name
    /\ record.nationality_standardized = StripTitle(candidate.nationality)
    /\ (candidate.nationality = NULL) = (record.nationality_code = NULL)
    /\ record.gender = normalize_gender(candidate.gender)
    /\ record.source_system = candidate.data_source

\* C27: every athlete record is one candidate row of its normalized name, whole, that no
\* other candidate of the name precedes by nationality and source with nulls last; when a
\* candidate of the name has a nationality the record has one
C27_FirstCandidateWins ==
    pc = "deduplicated" =>
        \A i \in 1..Len(ret) :
            /\ \E k \in SameAthlete(ret[i]) :
                   /\ RecordOf(arg[k], ret[i])
                   /\ \A j \in SameAthlete(ret[i]) :
                          ~(\/ TextBefore(arg[j].nationality, arg[k].nationality)
                            \/ /\ arg[j].nationality = arg[k].nationality
                               /\ TextBefore(arg[j].data_source, arg[k].data_source))
            /\ (\E k \in SameAthlete(ret[i]) : arg[k].nationality # NULL)
                   => ret[i].nationality_code # NULL

\* the spelling without a nationality is returned first and the one with a nationality
\* and another gender survives
C27_Witness ==
    /\ pc = "deduplicated"
    /\ Len(arg) = 2 /\ Len(ret) = 1
    /\ arg[1].nationality = NULL /\ arg[1].gender = "male"
    /\ arg[2].nationality = "JAM" /\ arg[2].gender = "female"
    /\ arg[1].athlete_name # arg[2].athlete_name
    /\ ret[1].athlete_name = arg[2].athlete_name
    /\ ret[1].nationality_code = "JAM" /\ ret[1].gender = "F"

(***************************************************************************)
(* Name variants: the performances of deduplicated athletes                *)
(***************************************************************************)
\* the performance rows of the staging table after the joins with the reference tables
JoinedPerformances == JoinReferences(PerformanceRows(clean_wa), athletes, events, venues)

\* C30: every staged performance whose athlete name has the normalized name of an athlete
\* record is joined to the key of that record, also under a spelling the deduplication
\* discarded, and is in the performances table
C30_VariantsKeepTheirAthlete ==
    pc = "done" =>
        \A k \in 1..Len(JoinedPerformances), a \in 1..Len(athletes) :
            normalize_athlete_name(JoinedPerformances[k].athlete_name)
                    = normalize_athlete_name(athletes[a].athlete_name)
                => /\ JoinedPerformances[k].athlete_key = athletes[a].athlete_key
                   /\ \E i \in 1..Len(performances) :
                          performances[i].athlete_key = athletes[a].athlete_key

====
